---- MODULE Spec2Model ----
(***************************************************************************)
(* Controller core of ciao: the datastore's tenant IP allocator, the       *)
(* external IP pool manager and the per-tenant CNCI manager.               *)
(*                                                                         *)
(* Nine specifications share this module.  SpecIP drives the tenant IP      *)
(* allocator of one tenant, SpecPool the external IP pools, SpecCNCI the   *)
(* CNCI manager of one tenant, SpecInst the instance and workload caches   *)
(* of one tenant, SpecStore its block devices and storage attachments.     *)
(* Each keeps the other parts' variables at their initial values.          *)
(* SpecNet runs the allocator with the tenant's CNCI manager attached,      *)
(* SpecConfig the allocator of a tenant whose subnet size is patched,      *)
(* SpecStats the instances with the statistics of their nodes, SpecLocks   *)
(* the lock calls of the instance operations.                              *)
(***************************************************************************)
EXTENDS Integers, Sequences, FiniteSets, TLC

VARIABLES
    \* ---- tenant IP allocator (datastore, one tenant) ----
    network,      \* tenant.network: subnet key -> set of reserved host bytes
    subnets,      \* tenant.subnets: sequence of subnet keys
    SubnetBits,   \* tenant.SubnetBits
    tenantsLock,  \* "free", or "held" once a call left without unlocking
    panicked,     \* a runtime panic has been raised in a datastore call
    ipPc,         \* caller -> position inside AllocateTenantIP
    ipLocal,      \* caller -> address reserved by its AllocateTenantIP call
    held,         \* addresses returned by AllocateTenantIP and not released
    nAlloc,       \* number of AllocateTenantIP calls made so far
    lastAlloc,    \* history: the last AllocateTenantIP lock section
    lastRet,      \* history: the last address AllocateTenantIP returned
    roundTrip,    \* history: an allocation directly followed by its release
    relLow,       \* history: a release of the lowest reserved host byte
    instanceIPs,  \* the IPAddress of each instance in Datastore.instances
    \* ---- CNCI manager (one tenant) ----
    cnciLock,     \* CNCIManager.cnciLock: "free" or "handler"
    cncis,        \* CNCIManager.cncis: the CNCI records indexed by instance
    subnetsMap,   \* CNCIManager.subnets: subnet key -> CNCI record (0: none)
    recs,         \* the CNCI structs ever allocated, by record number
    chanClosed,   \* the event channels ever made: closed or not
    proc,         \* goroutines: callers and timer callbacks, with locals
    handler,      \* the agent notification being handled, blocked on a send
    cnciPanicked, \* a runtime panic has been raised in the CNCI manager
    nCalls,       \* number of calls made to the CNCI manager so far
    everAdded,    \* history: records whose added event has been processed
    cancelled,    \* history: timers WaitForActive has stopped, with no
                  \* ScheduleRemoveSubnet for their subnet since
    ranRemove,    \* history: timers whose callback removed its subnet
    failedWaiters,\* history: callers waiting when StartFailure came
    resolvedFailed, \* history: a caller resolved a record that failed to start
    \* ---- external IP pools (datastore) ----
    pools,          \* Datastore.pools: pool ID -> pool
    externalSubnets, \* Datastore.externalSubnets: the CIDR strings entered
    externalIPs,    \* Datastore.externalIPs: the address strings entered
    mappedIPs,      \* Datastore.mappedIPs: address string -> mapping
    nextID,         \* the next fresh ID of a pool, subnet or address entry
    addPoolFailed,  \* pools whose AddPool has its DeletePool call to make
    dbFailures,     \* number of calls to the persistent store that failed
    rt,             \* history: the last AddPool call, or the MapExternalIP
                    \* that returned last and the UnMapExternalIP of its
                    \* address that followed at once
    \* ---- instances, workloads, storage (datastore) ----
    instances,      \* Datastore.instances: instance ID -> instance
    instanceLastStat, \* Datastore.instanceLastStat: the instance IDs entered
    tenantInstances, \* tenant.instances: the instance IDs entered
    workloads,      \* tenant.workloads: the workload IDs in list order
    blockDevices,   \* Datastore.blockDevices: volume ID -> state
    devices,        \* tenant.devices: volume ID -> state
    attachments,    \* Datastore.attachments: attachment ID -> attachment
    instanceVolumes, \* Datastore.instanceVolumes: <<instance, volume>> -> ID
    nextAttach,     \* the next fresh attachment ID
    dsPc,           \* per caller: the lock section of its operation
    dsPanicked,     \* a nil dereference has ended the process
    lockNest,       \* history: <<h, l>>: lock l was taken while h was held
    lastDW,         \* history: the last DeleteWorkload call
    usa,            \* history: the last updateStorageAttachments call
    \* ---- nodes and instance statistics (datastore) ----
    nodes,          \* Datastore.nodes: node ID -> the IDs in node.instances
    instanceNode,   \* the NodeID of each instance in Datastore.instances
    deletedNode,    \* per caller: the NodeID of the instance it deletes
    lastUsage,      \* the usage in each entry of Datastore.instanceLastStat
    lastStat,       \* history: the stat entry addInstanceStats handled last
    deletedIDs,     \* history: instances deleted and not added again
    raced,          \* history: deleting callers that a stat or stop of
                    \* their instance has overtaken
    nStats,         \* number of stats frames handled so far
    \* ---- the domain locks of the datastore ----
    lockHolders,    \* lock -> the <<goroutine, mode>> pairs that hold it
    lockProg        \* goroutine -> the lock operations it has still to do

ipVars == <<network, subnets, SubnetBits, tenantsLock, panicked, ipPc, ipLocal,
            held, nAlloc, lastAlloc, lastRet, roundTrip, relLow, instanceIPs>>

cnciVars == <<cnciLock, cncis, subnetsMap, recs, chanClosed, proc, handler,
              cnciPanicked, nCalls, everAdded, cancelled, ranRemove, failedWaiters,
              resolvedFailed>>

poolVars == <<pools, externalSubnets, externalIPs, mappedIPs, nextID,
              addPoolFailed, dbFailures, rt>>

statVars == <<nodes, instanceNode, deletedNode, lastUsage, lastStat, deletedIDs,
              raced, nStats>>

lockVars == <<lockHolders, lockProg>>

dsVars == <<instances, instanceLastStat, tenantInstances, workloads, blockDevices,
            devices, attachments, instanceVolumes, nextAttach, dsPc, dsPanicked,
            lockNest, lastDW, usa, statVars, lockVars>>

vars == <<ipVars, cnciVars, poolVars, dsVars>>

(***************************************************************************)
(* Bounds of the model.                                                    *)
(***************************************************************************)
MaxAllocs == 4

IPCallers == {"c1", "c2"}

\* tenant configurations the runs switch between: /29 and /30 tenant subnets
BitsChoices == {29, 30}

None == [none |-> TRUE]

\* 1 << n
RECURSIVE Pow2(_)
Pow2(n) == IF n <= 0 THEN 1 ELSE 2 * Pow2(n - 1)

\* the elements of a sequence
Range(s) == {s[i] : i \in DOMAIN s}

SetMin(S) == CHOOSE x \in S : \A y \in S : x <= y

(***************************************************************************)
(* CNCI manager.                                                           *)
(***************************************************************************)
MaxRecs == 2
MaxChans == 3
MaxTimers == 2
MaxCalls == 4

\* goroutines: the callers are numbered below zero, the timer callbacks by
\* their timer, from 1 (0 is the nil timer, record and channel)
CNCICallers == {-1, -2}
TimerIds == 1 .. MaxTimers
CNCISubnets == {4096}

\* events sent on a CNCI's event channel
added == "concentrator added"
startFailure == "cnci start failure"
removed == "concentrator removed"

\* instance states (payloads)
Pending == "pending"
Running == "active"
Stopping == "stopping"
Exited == "exited"
ExitFailed == "exit_failed"

\* a goroutine at rest
Idle == [pc |-> "idle", k |-> 0, rec |-> 0, ch |-> 0, ret |-> "none"]
Unused == [pc |-> "unused", k |-> 0, rec |-> 0, ch |-> 0, ret |-> "none"]

CNCIStart ==
    /\ cnciLock = "free"
    /\ cncis = {}
    /\ subnetsMap = [k \in CNCISubnets |-> 0]
    /\ recs = <<>>
    /\ chanClosed = <<>>
    /\ proc = [p \in CNCICallers \cup TimerIds |->
                 IF p \in CNCICallers THEN Idle ELSE Unused]
    /\ handler = None
    /\ cnciPanicked = FALSE
    /\ nCalls = 0
    /\ everAdded = {}
    /\ cancelled = {}
    /\ ranRemove = {}
    /\ failedWaiters = {}
    /\ resolvedFailed = FALSE

\* instanceActive: the instance is in the Running state
instanceActive(r) == recs[r].state = Running

\* timer.Stop(): a timer that has not fired never will; one that has fired
\* has started its callback, which runs on
StopTimer(pr, t) ==
    IF t # 0 /\ pr[t].pc = "armed" THEN [pr EXCEPT ![t].pc = "stopped"] ELSE pr

\* the goroutine q has left its call: a caller is idle again, a timer
\* callback has finished (its subnet key is kept for the history)
Gone(q) ==
    IF q \in CNCICallers THEN Idle
    ELSE [Unused EXCEPT !.pc = "finished", !.k = proc[q].k]

\* waitForActive returns ret to the caller of WaitForActive
Return(p, ret) == [proc[p] EXCEPT !.pc = "wfa_done", !.ret = ret, !.ch = 0]

\* what is left of a handler once its send has been received:
\* CNCIRemoved deletes the record from cncis after the transition
AfterSend(h) == IF h.kind = "CNCIRemoved" THEN cncis \ {h.rec} ELSE cncis

\* WaitForActive, a record exists for the subnet: stop and forget its
\* remove-timer, then go on to waitForActive
WaitForActiveExisting(p, k) ==
    /\ ~cnciPanicked
    /\ proc[p].pc = "idle"
    /\ cnciLock = "free"
    /\ subnetsMap[k] # 0
    /\ LET r == subnetsMap[k]
           t == recs[r].timer
       IN  /\ recs' = [recs EXCEPT ![r].timer = 0]
           /\ proc' = [StopTimer(proc, t) EXCEPT ![p] =
                         [pc |-> "wfa_rlock", k |-> k, rec |-> 0, ch |-> 0,
                          ret |-> "none"]]
           /\ cancelled' = IF t # 0 THEN cancelled \cup {t} ELSE cancelled
    /\ nCalls < MaxCalls
    /\ nCalls' = nCalls + 1
    /\ UNCHANGED failedWaiters
    /\ UNCHANGED <<cnciLock, cncis, subnetsMap, chanClosed, handler, cnciPanicked,
                   everAdded, ranRemove, resolvedFailed>>
    /\ UNCHANGED <<ipVars, poolVars, dsVars>>

\* WaitForActive, no record for the subnet: make the record and its event
\* channel, enter it in subnets, launch; launched = FALSE is a failed launch
WaitForActiveLaunch(p, k, launched) ==
    /\ ~cnciPanicked
    /\ proc[p].pc = "idle"
    /\ cnciLock = "free"
    /\ subnetsMap[k] = 0
    /\ Len(recs) < MaxRecs
    /\ Len(chanClosed) < MaxChans
    /\ LET r == Len(recs) + 1
           c == Len(chanClosed) + 1
       IN  /\ recs' = Append(recs, [instance |-> launched,
                                    state |-> IF launched THEN Pending ELSE "none",
                                    subnet |-> k, eventCh |-> c, timer |-> 0])
           /\ chanClosed' = Append(chanClosed, FALSE)
           /\ subnetsMap' = [subnetsMap EXCEPT ![k] = r]
           /\ cncis' = IF launched THEN cncis \cup {r} ELSE cncis
           /\ proc' = [proc EXCEPT ![p] =
                         [pc |-> IF launched THEN "w_wait" ELSE "w_close",
                          k |-> k, rec |-> r, ch |-> c,
                          ret |-> IF launched THEN "none" ELSE "err"]]
    /\ nCalls < MaxCalls
    /\ nCalls' = nCalls + 1
    /\ UNCHANGED failedWaiters
    /\ UNCHANGED <<cnciLock, handler, cnciPanicked, everAdded, cancelled,
                   ranRemove, resolvedFailed>>
    /\ UNCHANGED <<ipVars, poolVars, dsVars>>

\* mutation: any event received counts as the expected one
EventResultAny(recv, e) == "ok"

\* waitForEventTimeout: recv != e is an error, recv = e is success
EventResult(recv, e) == IF recv # e THEN "err" ELSE "ok"

Expected(q) == IF proc[q].pc = "w_wait" THEN added ELSE removed

AfterWait(q) == IF proc[q].pc = "w_wait" THEN "w_close" ELSE "rs_close"

\* waitForEventTimeout, the receive: the handler's send and this receive
\* meet; the handler finishes and unlocks
ReceiveEvent(q) ==
    /\ ~cnciPanicked
    /\ proc[q].pc \in {"w_wait", "rs_wait"}
    /\ handler # None
    /\ handler.ch = proc[q].ch
    /\ ~chanClosed[proc[q].ch]
    /\ proc' = [proc EXCEPT ![q].pc = AfterWait(q),
                            ![q].ret = EventResult(handler.ev, Expected(q))]
    /\ cncis' = AfterSend(handler)
    /\ handler' = None
    /\ cnciLock' = "free"
    /\ UNCHANGED nCalls
    /\ UNCHANGED <<subnetsMap, recs, chanClosed, cnciPanicked, everAdded,
                   cancelled, ranRemove, failedWaiters, resolvedFailed>>
    /\ UNCHANGED <<ipVars, poolVars, dsVars>>

\* waitForEventTimeout, the timeout
EventTimeout(q) ==
    /\ ~cnciPanicked
    /\ proc[q].pc \in {"w_wait", "rs_wait"}
    /\ proc' = [proc EXCEPT ![q].pc = AfterWait(q), ![q].ret = "err"]
    /\ UNCHANGED nCalls
    /\ UNCHANGED <<cnciLock, cncis, subnetsMap, recs, chanClosed, handler,
                   cnciPanicked, everAdded, cancelled, ranRemove, failedWaiters,
                   resolvedFailed>>
    /\ UNCHANGED <<ipVars, poolVars, dsVars>>

\* the deferred close(ch) of WaitForActive and RemoveSubnet
DeferClose(q) ==
    /\ ~cnciPanicked
    /\ proc[q].pc \in {"w_close", "rs_close"}
    /\ chanClosed' = [chanClosed EXCEPT ![proc[q].ch] = TRUE]
    /\ proc' = [proc EXCEPT ![q].pc =
                  IF proc[q].pc = "w_close" THEN "w_clear" ELSE "rs_clear"]
    /\ UNCHANGED nCalls
    /\ UNCHANGED <<cnciLock, cncis, subnetsMap, recs, handler, cnciPanicked,
                   everAdded, cancelled, ranRemove, failedWaiters, resolvedFailed>>
    /\ UNCHANGED <<ipVars, poolVars, dsVars>>

\* the deferred cnci.eventCh = nil, written without the manager lock
DeferClearBody(q) ==
    /\ ~cnciPanicked
    /\ proc[q].pc \in {"w_clear", "rs_clear"}
    /\ recs' = [recs EXCEPT ![proc[q].rec].eventCh = 0]
    /\ proc' = [proc EXCEPT ![q] = Gone(q)]
    /\ failedWaiters' = failedWaiters \ {q}
    /\ UNCHANGED nCalls
    /\ UNCHANGED <<cnciLock, cncis, subnetsMap, chanClosed, handler, cnciPanicked,
                   everAdded, cancelled, ranRemove, resolvedFailed>>

\* the deferred cnci.eventCh = nil of a call made on the manager alone
DeferClear(q) ==
    /\ DeferClearBody(q)
    /\ UNCHANGED <<ipVars, poolVars, dsVars>>

\* waitForActive: the subnet lookup under the read lock
WfaLookup(p) ==
    /\ ~cnciPanicked
    /\ proc[p].pc = "wfa_rlock"
    /\ cnciLock = "free"
    /\ LET r == subnetsMap[proc[p].k]
       IN  /\ proc' = [proc EXCEPT ![p] =
                         IF r = 0 THEN Return(p, "err")
                         ELSE [proc[p] EXCEPT !.pc = "wfa_active", !.rec = r]]
           /\ resolvedFailed' =
                (resolvedFailed \/ (r # 0 /\ recs[r].state = ExitFailed))
    /\ UNCHANGED nCalls
    /\ UNCHANGED <<cnciLock, cncis, subnetsMap, recs, chanClosed, handler,
                   cnciPanicked, everAdded, cancelled, ranRemove, failedWaiters>>
    /\ UNCHANGED <<ipVars, poolVars, dsVars>>

\* waitForActive: the first instanceActive(cnci.instance); a record whose
\* launch failed has no instance, and reading its state panics
WfaActive(p) ==
    /\ ~cnciPanicked
    /\ proc[p].pc = "wfa_active"
    /\ LET r == proc[p].rec
       IN  /\ cnciPanicked' = ~recs[r].instance
           /\ proc' = [proc EXCEPT ![p] =
                         IF recs[r].instance /\ instanceActive(r)
                         THEN Return(p, "ok")
                         ELSE [proc[p] EXCEPT !.pc = "wfa_readch"]]
    /\ UNCHANGED nCalls
    /\ UNCHANGED <<cnciLock, cncis, subnetsMap, recs, chanClosed, handler,
                   everAdded, cancelled, ranRemove, failedWaiters, resolvedFailed>>
    /\ UNCHANGED <<ipVars, poolVars, dsVars>>

\* waitForActive: eCh := cnci.eventCh, read without the manager lock
WfaReadCh(p) ==
    /\ ~cnciPanicked
    /\ proc[p].pc = "wfa_readch"
    /\ LET eCh == recs[proc[p].rec].eventCh
       IN  proc' = [proc EXCEPT ![p] =
                      IF eCh = 0 THEN Return(p, "err")
                      ELSE [proc[p] EXCEPT !.pc = "wfa_recv", !.ch = eCh]]
    /\ UNCHANGED nCalls
    /\ UNCHANGED <<cnciLock, cncis, subnetsMap, recs, chanClosed, handler,
                   cnciPanicked, everAdded, cancelled, ranRemove, failedWaiters,
                   resolvedFailed>>
    /\ UNCHANGED <<ipVars, poolVars, dsVars>>

\* waitForActive: <-*eCh takes an event a handler is sending on the channel
WfaReceive(p) ==
    /\ ~cnciPanicked
    /\ proc[p].pc = "wfa_recv"
    /\ handler # None
    /\ handler.ch = proc[p].ch
    /\ ~chanClosed[proc[p].ch]
    /\ proc' = [proc EXCEPT ![p].pc = "wfa_active2"]
    /\ cncis' = AfterSend(handler)
    /\ handler' = None
    /\ cnciLock' = "free"
    /\ UNCHANGED nCalls
    /\ UNCHANGED <<subnetsMap, recs, chanClosed, cnciPanicked, everAdded,
                   cancelled, ranRemove, failedWaiters, resolvedFailed>>
    /\ UNCHANGED <<ipVars, poolVars, dsVars>>

\* waitForActive: <-*eCh returns because the channel has been closed
WfaClosed(p) ==
    /\ ~cnciPanicked
    /\ proc[p].pc = "wfa_recv"
    /\ chanClosed[proc[p].ch]
    /\ proc' = [proc EXCEPT ![p].pc = "wfa_active2"]
    /\ UNCHANGED nCalls
    /\ UNCHANGED <<cnciLock, cncis, subnetsMap, recs, chanClosed, handler,
                   cnciPanicked, everAdded, cancelled, ranRemove, failedWaiters,
                   resolvedFailed>>
    /\ UNCHANGED <<ipVars, poolVars, dsVars>>

\* waitForActive: the second instanceActive decides the result
WfaActive2(p) ==
    /\ ~cnciPanicked
    /\ proc[p].pc = "wfa_active2"
    /\ proc' = [proc EXCEPT ![p] =
                  Return(p, IF instanceActive(proc[p].rec) THEN "ok" ELSE "err")]
    /\ UNCHANGED nCalls
    /\ UNCHANGED <<cnciLock, cncis, subnetsMap, recs, chanClosed, handler,
                   cnciPanicked, everAdded, cancelled, ranRemove, failedWaiters,
                   resolvedFailed>>
    /\ UNCHANGED <<ipVars, poolVars, dsVars>>

\* WaitForActive hands waitForActive's result to its caller
WfaReturnBody(p) ==
    /\ ~cnciPanicked
    /\ proc[p].pc = "wfa_done"
    /\ proc' = [proc EXCEPT ![p] = Idle]
    /\ failedWaiters' = failedWaiters \ {p}
    /\ UNCHANGED nCalls
    /\ UNCHANGED <<cnciLock, cncis, subnetsMap, recs, chanClosed, handler,
                   cnciPanicked, everAdded, cancelled, ranRemove, resolvedFailed>>

\* WaitForActive returns to a caller of the manager alone
WfaReturn(p) ==
    /\ WfaReturnBody(p)
    /\ UNCHANGED <<ipVars, poolVars, dsVars>>

\* ScheduleRemoveSubnet, no record for the subnet: an error
ScheduleRemoveSubnetNoneBody(p, k) ==
    /\ ~cnciPanicked
    /\ proc[p].pc = "idle"
    /\ cnciLock = "free"
    /\ subnetsMap[k] = 0
    /\ proc' = proc
    /\ nCalls < MaxCalls
    /\ nCalls' = nCalls + 1
    /\ UNCHANGED failedWaiters
    /\ UNCHANGED <<cnciLock, cncis, subnetsMap, recs, chanClosed, handler,
                   cnciPanicked, everAdded, cancelled, ranRemove, resolvedFailed>>

\* ScheduleRemoveSubnet, no record for the subnet, called on the manager alone
ScheduleRemoveSubnetNone(p, k) ==
    /\ ScheduleRemoveSubnetNoneBody(p, k)
    /\ UNCHANGED <<ipVars, poolVars, dsVars>>

\* the timers made so far are 1 .. TimersMade
TimersMade == Cardinality({t \in TimerIds : proc[t].pc # "unused"})

\* ScheduleRemoveSubnet: nothing to do when the record has a timer, else
\* time.AfterFunc arms a new timer whose callback holds the record and key
ScheduleRemoveSubnetBody(p, k) ==
    /\ ~cnciPanicked
    /\ proc[p].pc = "idle"
    /\ cnciLock = "free"
    /\ subnetsMap[k] # 0
    /\ LET r == subnetsMap[k]
           t == TimersMade + 1
       IN  IF recs[r].timer # 0
           THEN /\ proc' = proc
                /\ recs' = recs
                /\ cancelled' = cancelled
           ELSE /\ t \in TimerIds
                /\ recs' = [recs EXCEPT ![r].timer = t]
                /\ proc' = [proc EXCEPT
                     ![t] = [Unused EXCEPT !.pc = "armed", !.k = k, !.rec = r]]
                /\ cancelled' = {c \in cancelled : proc[c].k # k}
    /\ nCalls < MaxCalls
    /\ nCalls' = nCalls + 1
    /\ UNCHANGED failedWaiters
    /\ UNCHANGED <<cnciLock, cncis, subnetsMap, chanClosed, handler, cnciPanicked,
                   everAdded, ranRemove, resolvedFailed>>

\* ScheduleRemoveSubnet called on the manager alone
ScheduleRemoveSubnet(p, k) ==
    /\ ScheduleRemoveSubnetBody(p, k)
    /\ UNCHANGED <<ipVars, poolVars, dsVars>>

\* the timer expires: its callback starts in a goroutine of its own
TimerFire(t) ==
    /\ ~cnciPanicked
    /\ proc[t].pc = "armed"
    /\ proc' = [proc EXCEPT ![t].pc = "cb_lock"]
    /\ UNCHANGED nCalls
    /\ UNCHANGED <<cnciLock, cncis, subnetsMap, recs, chanClosed, handler,
                   cnciPanicked, everAdded, cancelled, ranRemove, failedWaiters,
                   resolvedFailed>>
    /\ UNCHANGED <<ipVars, poolVars, dsVars>>

\* the timer callback: under the lock cnci.timer = nil, then RemoveSubnet
TimerCallback(t) ==
    /\ ~cnciPanicked
    /\ proc[t].pc = "cb_lock"
    /\ cnciLock = "free"
    /\ recs' = [recs EXCEPT ![proc[t].rec].timer = 0]
    /\ proc' = [proc EXCEPT ![t].pc = "rs_lock"]
    /\ UNCHANGED nCalls
    /\ UNCHANGED <<cnciLock, cncis, subnetsMap, chanClosed, handler, cnciPanicked,
                   everAdded, cancelled, ranRemove, failedWaiters, resolvedFailed>>
    /\ UNCHANGED <<ipVars, poolVars, dsVars>>

\* RemoveSubnet up to the wait, by goroutine q: the record leaves subnets,
\* the CNCI is stopped (deleted = FALSE: ctrl.deleteInstance fails) and the
\* record gets a new event channel
RemoveSubnetBody(q, k, deleted) ==
    /\ ~cnciPanicked
    /\ cnciLock = "free"
    /\ LET r == subnetsMap[k]
           c == Len(chanClosed) + 1
           me == [proc[q] EXCEPT !.k = k, !.rec = r, !.ch = 0, !.ret = "none"]
       IN  IF r = 0
           THEN /\ proc' = [proc EXCEPT ![q] = Gone(q)]
                /\ UNCHANGED <<subnetsMap, recs, chanClosed, cnciLock,
                               cnciPanicked, ranRemove>>
           ELSE IF ~recs[r].instance
           THEN \* stop() on a record without instance: nil dereference
                /\ subnetsMap' = [subnetsMap EXCEPT ![k] = 0]
                /\ cnciPanicked' = TRUE
                /\ cnciLock' = "panic"
                /\ proc' = [proc EXCEPT ![q] = me]
                /\ ranRemove' = IF q \in TimerIds THEN ranRemove \cup {q} ELSE ranRemove
                /\ UNCHANGED <<recs, chanClosed>>
           ELSE IF ~deleted
           THEN /\ subnetsMap' = [subnetsMap EXCEPT ![k] = 0]
                /\ recs' = [recs EXCEPT ![r].state = Stopping]
                /\ proc' = [proc EXCEPT ![q] = Gone(q)]
                /\ ranRemove' = IF q \in TimerIds THEN ranRemove \cup {q} ELSE ranRemove
                /\ UNCHANGED <<chanClosed, cnciLock, cnciPanicked>>
           ELSE /\ c <= MaxChans
                /\ subnetsMap' = [subnetsMap EXCEPT ![k] = 0]
                /\ recs' = [recs EXCEPT ![r].state = Stopping, ![r].eventCh = c]
                /\ chanClosed' = Append(chanClosed, FALSE)
                /\ proc' = [proc EXCEPT ![q] = [me EXCEPT !.pc = "rs_wait", !.ch = c]]
                /\ ranRemove' = IF q \in TimerIds THEN ranRemove \cup {q} ELSE ranRemove
                /\ UNCHANGED <<cnciLock, cnciPanicked>>
    /\ UNCHANGED <<cncis, handler, everAdded, cancelled, resolvedFailed>>
    /\ UNCHANGED <<ipVars, poolVars, dsVars>>

\* RemoveSubnet called directly
RemoveSubnet(p, k, deleted) ==
    /\ proc[p].pc = "idle"
    /\ nCalls < MaxCalls
    /\ nCalls' = nCalls + 1
    /\ UNCHANGED failedWaiters
    /\ RemoveSubnetBody(p, k, deleted)

\* RemoveSubnet called by the timer callback
TimerRemoveSubnet(t, deleted) ==
    /\ proc[t].pc = "rs_lock"
    /\ UNCHANGED <<failedWaiters, nCalls>>
    /\ RemoveSubnetBody(t, proc[t].k, deleted)

RECURSIVE StopAll(_, _)
StopAll(pr, ts) ==
    IF ts = {} THEN pr
    ELSE LET t == CHOOSE x \in ts : TRUE
         IN  StopAll(StopTimer(pr, t), ts \ {t})

\* Shutdown: every record in subnets has its timer stopped and forgotten
Shutdown(p) ==
    /\ ~cnciPanicked
    /\ proc[p].pc = "idle"
    /\ cnciLock = "free"
    /\ LET live == {subnetsMap[k] : k \in CNCISubnets} \ {0}
           ts == {recs[r].timer : r \in live} \ {0}
       IN  /\ recs' = [r \in DOMAIN recs |->
                         IF r \in live THEN [recs[r] EXCEPT !.timer = 0] ELSE recs[r]]
           /\ proc' = StopAll(proc, ts)
    /\ nCalls < MaxCalls
    /\ nCalls' = nCalls + 1
    /\ UNCHANGED failedWaiters
    /\ UNCHANGED <<cnciLock, cncis, subnetsMap, chanClosed, handler, cnciPanicked,
                   everAdded, cancelled, ranRemove, resolvedFailed>>
    /\ UNCHANGED <<ipVars, poolVars, dsVars>>

\* the event transitionState sends for a state
EventFor(to) ==
    CASE to = Exited -> removed
      [] to = Running -> added
      [] to = ExitFailed -> startFailure

\* an agent notification for record id, handled under the manager lock:
\* the maps as the handler leaves them before its transition, then
\* transitionState(to); with an event channel set the handler blocks in the
\* send, still holding the lock
Notify(kind, id, to, cncis1, subnets1) ==
    /\ ~cnciPanicked
    /\ cnciLock = "free"
    /\ handler = None
    /\ id \in cncis
    /\ recs' = [recs EXCEPT ![id].state = to]
    /\ subnetsMap' = subnets1
    /\ LET ch == recs[id].eventCh
           h == [kind |-> kind, rec |-> id, ch |-> ch, ev |-> EventFor(to)]
       IN  IF ch = 0
           THEN /\ handler' = None
                /\ cnciLock' = "free"
                /\ cncis' = IF kind = "CNCIRemoved" THEN cncis1 \ {id} ELSE cncis1
           ELSE /\ handler' = h
                /\ cnciLock' = "handler"
                /\ cncis' = cncis1
    /\ UNCHANGED nCalls
    /\ UNCHANGED <<chanClosed, proc, cnciPanicked, cancelled, ranRemove,
                   resolvedFailed>>
    /\ UNCHANGED <<ipVars, poolVars, dsVars>>

\* CNCIAdded
CNCIAdded(id) ==
    /\ Notify("CNCIAdded", id, Running, cncis, subnetsMap)
    /\ everAdded' = everAdded \cup {id}
    /\ UNCHANGED failedWaiters

\* CNCIRemoved
CNCIRemoved(id) ==
    /\ Notify("CNCIRemoved", id, Exited, cncis, subnetsMap)
    /\ UNCHANGED <<everAdded, failedWaiters>>

\* CNCIStopped
CNCIStopped(id) ==
    /\ Notify("CNCIStopped", id, Exited, cncis, subnetsMap)
    /\ UNCHANGED <<everAdded, failedWaiters>>

\* mutation: StartFailure leaves the subnets map alone
StartFailureKeepsSubnet(id) == subnetsMap

\* the subnets map after StartFailure's delete(c.subnets, cnci.subnet)
StartFailureSubnets(id) == [subnetsMap EXCEPT ![recs[id].subnet] = 0]

Waiting == {"w_wait", "wfa_active", "wfa_readch", "wfa_recv", "wfa_active2"}

\* StartFailure
StartFailure(id) ==
    /\ Notify("StartFailure", id, ExitFailed, cncis \ {id}, StartFailureSubnets(id))
    /\ failedWaiters' = failedWaiters \cup
          {p \in CNCICallers : proc[p].rec = id /\ proc[p].pc \in Waiting}
    /\ UNCHANGED everAdded

\* a send on a closed channel panics, with the manager lock held
SendOnClosed ==
    /\ ~cnciPanicked
    /\ handler # None
    /\ chanClosed[handler.ch]
    /\ cnciPanicked' = TRUE
    /\ UNCHANGED nCalls
    /\ UNCHANGED <<cnciLock, cncis, subnetsMap, recs, chanClosed, proc, handler,
                   everAdded, cancelled, ranRemove, failedWaiters, resolvedFailed>>
    /\ UNCHANGED <<ipVars, poolVars, dsVars>>

(***************************************************************************)
(* External IP pools.                                                      *)
(***************************************************************************)
MaxIDs == 3
MaxMapped == 3
MaxDBFailures == 1

\* an address string is its textual form and the address it parses to
V4(d) == [form |-> "v4", ip |-> <<10, 0, 0, d>>]
V4in6(d) == [form |-> "v4in6", ip |-> <<10, 0, 0, d>>]

\* a CIDR string is the address written before the slash and the prefix
Cidr(d, ones) == [ip |-> <<10, 0, 0, d>>, ones |-> ones]

\* the CIDR strings and address strings handed to the pool operations
CIDRInputs == {Cidr(4, 30), Cidr(5, 29), Cidr(2, 31), Cidr(1, 32)}
AddrInputs == {V4(1), V4(5), V4in6(1)}
AddrLists ==
    {<<a>> : a \in AddrInputs} \cup {<<a, b>> : a \in AddrInputs, b \in AddrInputs}

PoolStart ==
    /\ pools = [id \in {} |-> {}]
    /\ externalSubnets = {}
    /\ externalIPs = {}
    /\ mappedIPs = [a \in {} |-> {}]
    /\ nextID = 1
    /\ addPoolFailed = {}
    /\ dbFailures = 0
    /\ rt = None

\* a call to the persistent store that fails
DBFails == dbFailures < MaxDBFailures /\ dbFailures' = dbFailures + 1

\* net.ParseIP and IP.String(): every form parses to the address, the
\* address prints in dotted form
ParseIP(s) == s.ip
String(ip) == [form |-> "v4", ip |-> ip]

\* the number of prefix bits that fall into byte i of an address
PrefixBits(ones, i) ==
    IF ones >= 8 * i THEN 8
    ELSE IF ones <= 8 * (i - 1) THEN 0 ELSE ones - 8 * (i - 1)

\* IP.Mask
Mask(ip, ones) ==
    LET byte(i) == ip[i] - (ip[i] % Pow2(8 - PrefixBits(ones, i)))
    IN  <<byte(1), byte(2), byte(3), byte(4)>>

\* net.ParseCIDR: the address as written and the network it lies in
ParseCIDR(c) == [IP |-> c.ip, ipNet |-> [IP |-> Mask(c.ip, c.ones), ones |-> c.ones]]

\* IPNet.Contains
Contains(n, ip) == Mask(ip, n.ones) = n.IP

\* incrementIP: add one to the last byte, carry into the bytes before it
RECURSIVE IncrementFrom(_, _)
IncrementFrom(ip, i) ==
    IF i = 0 THEN ip
    ELSE LET v == (ip[i] + 1) % 256
             ip1 == [ip EXCEPT ![i] = v]
         IN  IF v > 0 THEN ip1 ELSE IncrementFrom(ip1, i - 1)

incrementIP(ip) == IncrementFrom(ip, 4)

\* (1 << (bits - ones)) - 2
SubnetIPs(ones) == Pow2(32 - ones) - 2

isDuplicateSubnet(extSubnets, new) ==
    \E s \in extSubnets :
        LET subnet == ParseCIDR(s).ipNet
        IN  Contains(subnet, new.IP) \/ Contains(new, subnet.IP)

isDuplicateIP(extSubnets, extIPs, new) ==
    \/ \E s \in extSubnets : Contains(ParseCIDR(s).ipNet, new)
    \/ String(new) \in extIPs

\* the number of cached mappings that name pool id
MappedOf(id) == Cardinality({a \in DOMAIN mappedIPs : mappedIPs[a].PoolID = id})

\* sort.Strings on address strings: dotted forms start with a digit and sort
\* before the forms that start with a colon; the last byte is one digit
StrLess(a, b) ==
    \/ a.form = "v4" /\ b.form = "v4in6"
    \/ a.form = b.form /\ a.ip[4] < b.ip[4]

SortStrings(s) == SortSeq(s, StrLess)

\* the pool a caller hands to AddPool: the pool and its addresses carry
\* fresh IDs, and TotalIPs and Free count the addresses as
\* AddExternalSubnet and AddExternalIPs count them
NewSubnetPool(c) ==
    [Subnets |-> <<[ID |-> nextID + 1, CIDR |-> c]>>, IPs |-> <<>>,
     TotalIPs |-> SubnetIPs(c.ones), Free |-> SubnetIPs(c.ones)]

NewIPsPool(l) ==
    [Subnets |-> <<>>,
     IPs |-> [i \in 1 .. Len(l) |-> [ID |-> nextID + i, Address |-> l[i]]],
     TotalIPs |-> Len(l), Free |-> Len(l)]

\* a pool that lists two subnets
NewSubnetsPool(c, d) ==
    [Subnets |-> <<[ID |-> nextID + 1, CIDR |-> c], [ID |-> nextID + 2, CIDR |-> d]>>,
     IPs |-> <<>>,
     TotalIPs |-> SubnetIPs(c.ones) + SubnetIPs(d.ones),
     Free |-> SubnetIPs(c.ones) + SubnetIPs(d.ones)]

EmptyPool == [Subnets |-> <<>>, IPs |-> <<>>, TotalIPs |-> 0, Free |-> 0]

PoolInputs ==
    {EmptyPool} \cup {NewSubnetPool(c) : c \in {c \in CIDRInputs : SubnetIPs(c.ones) > 0}}
                \cup {NewIPsPool(l) : l \in AddrLists}
                \cup {NewSubnetsPool(c, d) :
                         c, d \in {c \in CIDRInputs : SubnetIPs(c.ones) > 0}}

\* AddPool's loop over pool.Subnets: each admitted CIDR is entered in
\* externalSubnets at once, a duplicate ends the call
RECURSIVE AddPoolSubnets(_, _, _)
AddPoolSubnets(ext, subs, i) ==
    IF i > Len(subs) THEN [err |-> FALSE, ext |-> ext]
    ELSE IF isDuplicateSubnet(ext, ParseCIDR(subs[i].CIDR).ipNet)
         THEN [err |-> TRUE, ext |-> ext]
         ELSE AddPoolSubnets(ext \cup {subs[i].CIDR}, subs, i + 1)

\* AddPool's loops over pool.IPs: every address is checked against the
\* cache, then all are entered in externalIPs in printed form
AddPoolIPs(extIPs, ips) ==
    IF \E i \in DOMAIN ips :
          isDuplicateIP(externalSubnets, extIPs, ParseIP(ips[i].Address))
    THEN [err |-> TRUE, ext |-> extIPs]
    ELSE [err |-> FALSE,
          ext |-> extIPs \cup {String(ParseIP(ips[i].Address)) : i \in DOMAIN ips}]

\* the record of an AddPool call: the caches before it, whether it ends in
\* an error, and whether it has returned (after a failed db.addPool it
\* returns when its DeletePool call is done)
AddPoolCalled(id, pool, dbOK) ==
    LET rejected ==
            IF Len(pool.Subnets) > 0
            THEN AddPoolSubnets(externalSubnets, pool.Subnets, 1).err
            ELSE Len(pool.IPs) > 0 /\ AddPoolIPs(externalIPs, pool.IPs).err
    IN  [op |-> "addPool", id |-> id, pool |-> pool,
         err |-> rejected \/ ~dbOK, returned |-> rejected \/ dbOK,
         prePools |-> pools, preSubnets |-> externalSubnets, preIPs |-> externalIPs]

\* AddPool with a pool that carries a fresh ID; dbOK = FALSE: db.addPool
\* fails, and AddPool goes on to DeletePool after releasing the lock
AddPool(pool, dbOK) ==
    /\ nextID + Len(pool.Subnets) + Len(pool.IPs) <= MaxIDs
    /\ LET id == nextID
           rs == IF Len(pool.Subnets) > 0
                 THEN AddPoolSubnets(externalSubnets, pool.Subnets, 1)
                 ELSE [err |-> FALSE, ext |-> externalSubnets]
           ri == IF Len(pool.Subnets) = 0 /\ Len(pool.IPs) > 0
                 THEN AddPoolIPs(externalIPs, pool.IPs)
                 ELSE [err |-> FALSE, ext |-> externalIPs]
       IN  /\ externalSubnets' = rs.ext
           /\ externalIPs' = ri.ext
           /\ IF rs.err \/ ri.err
              THEN UNCHANGED <<pools, nextID, addPoolFailed, dbFailures>>
              ELSE /\ pools' = (id :> pool) @@ pools
                   /\ nextID' = nextID + 1 + Len(pool.Subnets) + Len(pool.IPs)
                   /\ IF dbOK THEN UNCHANGED <<addPoolFailed, dbFailures>>
                      ELSE addPoolFailed' = addPoolFailed \cup {id} /\ DBFails
    /\ UNCHANGED mappedIPs
    /\ rt' = AddPoolCalled(nextID, pool, dbOK)
    /\ UNCHANGED <<ipVars, cnciVars, dsVars>>

\* DeletePool's effect on the cache; the result of db.deletePool does not
\* stop the deletion
DeletePoolBody(ID) ==
    IF ID \notin DOMAIN pools THEN UNCHANGED <<pools, externalSubnets, externalIPs>>
    ELSE LET p == pools[ID]
         IN  IF p.Free # p.TotalIPs
             THEN UNCHANGED <<pools, externalSubnets, externalIPs>>
             ELSE /\ externalSubnets' =
                       externalSubnets \ {p.Subnets[i].CIDR : i \in DOMAIN p.Subnets}
                  /\ externalIPs' =
                       externalIPs \ {p.IPs[i].Address : i \in DOMAIN p.IPs}
                  /\ pools' = [x \in DOMAIN pools \ {ID} |-> pools[x]]

\* the DeletePool call AddPool makes after db.addPool failed
AddPoolRollback(id) ==
    /\ id \in addPoolFailed
    /\ addPoolFailed' = addPoolFailed \ {id}
    /\ DeletePoolBody(id)
    /\ UNCHANGED <<mappedIPs, nextID, dbFailures>>
    /\ rt' = IF rt # None /\ rt.op = "addPool" /\ rt.id = id
             THEN [rt EXCEPT !.returned = TRUE]
             ELSE None
    /\ UNCHANGED <<ipVars, cnciVars, dsVars>>

DeletePool(ID) ==
    /\ DeletePoolBody(ID)
    /\ UNCHANGED <<mappedIPs, nextID, addPoolFailed, dbFailures>>
    /\ rt' = None
    /\ UNCHANGED <<ipVars, cnciVars, dsVars>>

AddExternalSubnet(poolID, subnet, dbOK) ==
    /\ LET ipNet == ParseCIDR(subnet).ipNet
           newIPs == SubnetIPs(ipNet.ones)
           sub == [ID |-> nextID, CIDR |-> subnet]
       IN  IF \/ poolID \notin DOMAIN pools
              \/ isDuplicateSubnet(externalSubnets, ipNet)
              \/ newIPs <= 0
           THEN UNCHANGED <<pools, externalSubnets, nextID, dbFailures>>
           ELSE IF ~dbOK
           THEN DBFails /\ UNCHANGED <<pools, externalSubnets, nextID>>
           ELSE /\ nextID <= MaxIDs
                /\ UNCHANGED dbFailures
                /\ pools' = [pools EXCEPT ![poolID] =
                               [@ EXCEPT !.TotalIPs = @ + newIPs,
                                         !.Free = @ + newIPs,
                                         !.Subnets = Append(@, sub)]]
                /\ externalSubnets' = externalSubnets \cup {sub.CIDR}
                /\ nextID' = nextID + 1
    /\ UNCHANGED <<externalIPs, mappedIPs, addPoolFailed>>
    /\ rt' = None
    /\ UNCHANGED <<ipVars, cnciVars, dsVars>>

\* AddExternalIPs' loop over the sorted strings: <<>> stands for an error
\* return, else the ExternalIP entries to append
RECURSIVE AddIPsLoop(_, _, _, _)
AddIPsLoop(sorted, i, lastIP, acc) ==
    IF i > Len(sorted) THEN [err |-> FALSE, new |-> acc]
    ELSE LET newIP == sorted[i]
             IP == ParseIP(newIP)
         IN  IF lastIP = newIP \/ isDuplicateIP(externalSubnets, externalIPs, IP)
             THEN [err |-> TRUE, new |-> <<>>]
             ELSE AddIPsLoop(sorted, i + 1, newIP,
                     Append(acc, [ID |-> nextID + i - 1, Address |-> String(IP)]))

AddExternalIPs(poolID, IPs, dbOK) ==
    /\ LET r == AddIPsLoop(SortStrings(IPs), 1, None, <<>>)
       IN  IF poolID \notin DOMAIN pools \/ r.err
           THEN UNCHANGED <<pools, externalIPs, nextID, dbFailures>>
           ELSE IF ~dbOK
           THEN DBFails /\ UNCHANGED <<pools, externalIPs, nextID>>
           ELSE /\ nextID + Len(IPs) - 1 <= MaxIDs
                /\ UNCHANGED dbFailures
                /\ LET p == [pools[poolID] EXCEPT
                               !.TotalIPs = @ + Len(r.new),
                               !.Free = @ + Len(r.new),
                               !.IPs = @ \o r.new]
                   IN  /\ pools' = [pools EXCEPT ![poolID] = p]
                       /\ externalIPs' = externalIPs \cup
                              {p.IPs[i].Address : i \in DOMAIN p.IPs}
                /\ nextID' = nextID + Len(IPs)
    /\ UNCHANGED <<externalSubnets, mappedIPs, addPoolFailed>>
    /\ rt' = None
    /\ UNCHANGED <<ipVars, cnciVars, dsVars>>

\* the first index of s whose ID is id, 0 when there is none
IndexOfID(s, id) ==
    IF \E i \in DOMAIN s : s[i].ID = id
    THEN SetMin({i \in DOMAIN s : s[i].ID = id})
    ELSE 0

\* append(s[:i], s[i+1:]...) with a 1-based i: the slice that results
DeleteAt(s, i) == SubSeq(s, 1, i - 1) \o SubSeq(s, i + 1, Len(s))

\* what the same append leaves in a slice header that still has the old
\* length and shares the backing array: the tail moved down, the last
\* element twice
ShiftedUnder(s, i) == DeleteAt(s, i) \o <<s[Len(s)]>>

\* the loop of DeleteSubnet over the addresses of the subnet, from the
\* network address on: some address of the subnet is mapped
RECURSIVE AnyMappedFrom(_, _)
AnyMappedFrom(ipNet, IP) ==
    IF ~Contains(ipNet, IP) THEN FALSE
    ELSE IF String(IP) \in DOMAIN mappedIPs THEN TRUE
    ELSE AnyMappedFrom(ipNet, incrementIP(IP))

DeleteSubnet(poolID, subnetID, dbOK) ==
    /\ LET p == pools[poolID]
           i == IndexOfID(p.Subnets, subnetID)
           sub == p.Subnets[i]
           ipNet == ParseCIDR(sub.CIDR).ipNet
           numIPs == SubnetIPs(ipNet.ones)
       IN  IF poolID \notin DOMAIN pools
                THEN UNCHANGED <<pools, externalSubnets, dbFailures>>
           ELSE IF i = 0 THEN UNCHANGED <<pools, externalSubnets, dbFailures>>
           ELSE IF AnyMappedFrom(ipNet, Mask(ParseCIDR(sub.CIDR).IP, ipNet.ones))
                THEN UNCHANGED <<pools, externalSubnets, dbFailures>>
           ELSE IF ~dbOK
                THEN /\ DBFails
                     /\ pools' = [pools EXCEPT ![poolID].Subnets = ShiftedUnder(@, i)]
                     /\ UNCHANGED externalSubnets
           ELSE /\ UNCHANGED dbFailures
                /\ pools' = [pools EXCEPT ![poolID] =
                               [@ EXCEPT !.TotalIPs = @ - numIPs,
                                         !.Free = @ - numIPs,
                                         !.Subnets = DeleteAt(@, i)]]
                /\ externalSubnets' = externalSubnets \ {sub.CIDR}
    /\ UNCHANGED <<externalIPs, mappedIPs, nextID, addPoolFailed>>
    /\ rt' = None
    /\ UNCHANGED <<ipVars, cnciVars, dsVars>>

DeleteExternalIP(poolID, addrID, dbOK) ==
    /\ LET p == pools[poolID]
           i == IndexOfID(p.IPs, addrID)
           extIP == p.IPs[i]
       IN  IF poolID \notin DOMAIN pools
                THEN UNCHANGED <<pools, externalIPs, dbFailures>>
           ELSE IF i = 0 THEN UNCHANGED <<pools, externalIPs, dbFailures>>
           ELSE IF extIP.Address \in DOMAIN mappedIPs
                THEN UNCHANGED <<pools, externalIPs, dbFailures>>
           ELSE IF ~dbOK
                THEN /\ DBFails
                     /\ pools' = [pools EXCEPT ![poolID].IPs = ShiftedUnder(@, i)]
                     /\ UNCHANGED externalIPs
           ELSE /\ UNCHANGED dbFailures
                /\ pools' = [pools EXCEPT ![poolID] =
                               [@ EXCEPT !.TotalIPs = @ - 1,
                                         !.Free = @ - 1,
                                         !.IPs = DeleteAt(@, i)]]
                /\ externalIPs' = externalIPs \ {extIP.Address}
    /\ UNCHANGED <<externalSubnets, mappedIPs, nextID, addPoolFailed>>
    /\ rt' = None
    /\ UNCHANGED <<ipVars, cnciVars, dsVars>>

\* MapExternalIP's scan of one subnet from the address after the network
\* address: the first address string that is not mapped, None when the
\* scan leaves the subnet
RECURSIVE FreeInSubnet(_, _)
FreeInSubnet(ipNet, IP) ==
    IF ~Contains(ipNet, IP) THEN None
    ELSE IF String(IP) \notin DOMAIN mappedIPs THEN String(IP)
    ELSE FreeInSubnet(ipNet, incrementIP(IP))

\* MapExternalIP's scan of the pool's subnets in order
RECURSIVE FreeInSubnets(_, _)
FreeInSubnets(subs, i) ==
    IF i > Len(subs) THEN None
    ELSE LET c == ParseCIDR(subs[i].CIDR)
             found == FreeInSubnet(c.ipNet, incrementIP(Mask(c.IP, c.ipNet.ones)))
         IN  IF found # None THEN found ELSE FreeInSubnets(subs, i + 1)

\* MapExternalIP's scan of the pool's individual addresses in order
RECURSIVE FreeInIPs(_, _)
FreeInIPs(ips, i) ==
    IF i > Len(ips) THEN None
    ELSE IF ips[i].Address \notin DOMAIN mappedIPs THEN ips[i].Address
    ELSE FreeInIPs(ips, i + 1)

\* the address MapExternalIP picks in a pool
PickAddress(pool) ==
    LET inSubnets == FreeInSubnets(pool.Subnets, 1)
    IN  IF inSubnets # None THEN inSubnets ELSE FreeInIPs(pool.IPs, 1)

\* the usable hosts of a subnet from IP on, in ascending order: the
\* addresses of the subnet without its last (broadcast) address; the first
\* of them that is not mapped, None when there is none
RECURSIVE UsableInSubnet(_, _)
UsableInSubnet(ipNet, IP) ==
    IF ~Contains(ipNet, IP) \/ ~Contains(ipNet, incrementIP(IP)) THEN None
    ELSE IF String(IP) \notin DOMAIN mappedIPs THEN String(IP)
    ELSE UsableInSubnet(ipNet, incrementIP(IP))

RECURSIVE UsableInSubnets(_, _)
UsableInSubnets(subs, i) ==
    IF i > Len(subs) THEN None
    ELSE LET c == ParseCIDR(subs[i].CIDR)
             first == UsableInSubnet(c.ipNet, incrementIP(c.ipNet.IP))
         IN  IF first # None THEN first ELSE UsableInSubnets(subs, i + 1)

\* the address the pool should hand out: the first unmapped usable host of
\* its subnets in list order, else its first unmapped individual address
FirstUnmapped(pool) ==
    LET inSubnets == UsableInSubnets(pool.Subnets, 1)
    IN  IF inSubnets # None THEN inSubnets ELSE FreeInIPs(pool.IPs, 1)

\* the record of a MapExternalIP that returned address a of pool poolID:
\* the cache before the call, and the address a round trip would expect
\* when the call follows the UnMapExternalIP of the address mapped before
MapReturned(poolID, a) ==
    [op |-> "map", pool |-> poolID, addr |-> a, first |-> FirstUnmapped(pools[poolID]),
     preFree |-> pools[poolID].Free, preMapped |-> mappedIPs,
     expect |-> IF rt # None /\ rt.op = "unmap" /\ rt.pool = poolID
                THEN rt.addr ELSE None]

\* MapExternalIP; found: GetInstance finds the instance, addOK and updOK:
\* db.addMappedIP and db.updatePool succeed
MapExternalIP(poolID, found, addOK, updOK) ==
    /\ IF ~found \/ poolID \notin DOMAIN pools
       THEN UNCHANGED <<pools, mappedIPs, dbFailures>>
       ELSE LET pool == pools[poolID]
                addr == PickAddress(pool)
            IN  IF pool.Free = 0 \/ addr = None
                THEN UNCHANGED <<pools, mappedIPs, dbFailures>>
                ELSE IF ~addOK
                THEN DBFails /\ UNCHANGED <<pools, mappedIPs>>
                ELSE /\ Cardinality(DOMAIN mappedIPs) < MaxMapped
                     /\ mappedIPs' = (addr :> [PoolID |-> poolID]) @@ mappedIPs
                     /\ IF updOK
                        THEN /\ pools' = [pools EXCEPT ![poolID].Free = @ - 1]
                             /\ UNCHANGED dbFailures
                        ELSE DBFails /\ UNCHANGED pools
    /\ rt' = IF /\ found /\ addOK /\ updOK
                /\ poolID \in DOMAIN pools
                /\ pools[poolID].Free # 0
                /\ PickAddress(pools[poolID]) # None
             THEN MapReturned(poolID, PickAddress(pools[poolID]))
             ELSE None
    /\ UNCHANGED <<externalSubnets, externalIPs, nextID, addPoolFailed>>
    /\ UNCHANGED <<ipVars, cnciVars, dsVars>>

\* mutation: pool.Free++ left out
FreeKept(free) == free

\* pool.Free++
FreeInc(free) == free + 1

\* UnMapExternalIP; delOK and updOK: db.deleteMappedIP and db.updatePool
\* succeed
UnMapExternalIP(address, delOK, updOK) ==
    /\ IF address \notin DOMAIN mappedIPs
       THEN UNCHANGED <<pools, mappedIPs, dbFailures>>
       ELSE LET m == mappedIPs[address]
            IN  IF m.PoolID \notin DOMAIN pools
                THEN UNCHANGED <<pools, mappedIPs, dbFailures>>
                ELSE IF ~delOK
                THEN DBFails /\ UNCHANGED <<pools, mappedIPs>>
                ELSE /\ mappedIPs' = [a \in DOMAIN mappedIPs \ {address} |-> mappedIPs[a]]
                     /\ IF updOK
                        THEN /\ pools' = [pools EXCEPT ![m.PoolID].Free = FreeInc(@)]
                             /\ UNCHANGED dbFailures
                        ELSE DBFails /\ UNCHANGED pools
    /\ rt' = IF /\ delOK /\ updOK
                /\ address \in DOMAIN mappedIPs
                /\ mappedIPs[address].PoolID \in DOMAIN pools
                /\ rt # None /\ rt.op = "map" /\ rt.addr = address
             THEN [rt EXCEPT !.op = "unmap"]
             ELSE None
    /\ UNCHANGED <<externalSubnets, externalIPs, nextID, addPoolFailed>>
    /\ UNCHANGED <<ipVars, cnciVars, dsVars>>

(***************************************************************************)
(* Instances, workloads, block devices and storage attachments of one      *)
(* tenant.  A step is one lock section of an operation; the locks taken    *)
(* inside a section while another lock is held are recorded in lockNest.   *)
(***************************************************************************)
MaxWorkloads == 2
MaxAttachments == 2
MaxStats == 2
\* the goroutines that run AddInstance and those that run DeleteInstance
Adders == {"d1"}
Deleters == {"d2"}
DSCallers == Adders \cup Deleters
InstanceIDs == {"i1", "i2"}
\* the workloads of the tenant, and the workloads instances are made from
WorkloadIDs == {"w1"}
InstanceWorkloads == {"w1", "w2"}
VolumeIDs == {"v1", "v2"}
VolumeLists == {<<>>} \cup {<<v>> : v \in VolumeIDs}
                      \cup {<<v, u>> : v \in VolumeIDs, u \in VolumeIDs}
\* the nodes that send statistics; "" is the NodeID of an instance that
\* has none
NodeIDs == {"n1", "n2"}
NoNode == ""
\* the goroutines that take the domain locks, and the locks
LockCallers == {"g1", "g2"}
DomainLocks == {"instancesLock", "instanceLastStatLock", "tenantsLock", "nodesLock"}

\* block device states (types)
Available == "available"
InUse == "in-use"

\* the usage <<vCPU, memory, disk>> of a stat that carries none
NoUsage == <<0, 0, 0>>

\* a caller at rest
DSIdle == [pc |-> "idle", id |-> "none", found |-> FALSE]

EmptyMap == [k \in {} |-> {}]

DSStart ==
    /\ instances = EmptyMap
    /\ instanceLastStat = {}
    /\ tenantInstances = {}
    /\ workloads = <<>>
    /\ blockDevices = EmptyMap
    /\ devices = EmptyMap
    /\ attachments = EmptyMap
    /\ instanceVolumes = EmptyMap
    /\ nextAttach = 1
    /\ dsPc = [p \in DSCallers |-> DSIdle]
    /\ dsPanicked = FALSE
    /\ lockNest = {}
    /\ lastDW = None
    /\ usa = None
    /\ nodes = EmptyMap
    /\ instanceNode = EmptyMap
    /\ deletedNode = [p \in DSCallers |-> NoNode]
    /\ lastUsage = EmptyMap
    /\ lastStat = None
    /\ deletedIDs = {}
    /\ raced = {}
    /\ nStats = 0
    /\ lockHolders = [l \in DomainLocks |-> {}]
    /\ lockProg = [g \in LockCallers |-> <<>>]

\* delete(m, k)
MapDelete(f, k) == [x \in DOMAIN f \ {k} |-> f[x]]

\* the locks in ls are held when lock l is taken
Nest(ls, l) == {<<h, l>> : h \in ls}

\* AddWorkload: under tenantsLock, written through and appended
AddWorkload(w, dbOK) ==
    /\ ~dsPanicked
    /\ Len(workloads) < MaxWorkloads
    /\ workloads' = IF dbOK THEN Append(workloads, w) ELSE workloads
    /\ usa' = None
    /\ UNCHANGED <<instances, instanceLastStat, tenantInstances, blockDevices,
                   devices, attachments, instanceVolumes, nextAttach, dsPc,
                   dsPanicked, lockNest, lastDW>>
    /\ UNCHANGED <<statVars, lockVars>>
    /\ UNCHANGED <<ipVars, cnciVars, poolVars>>

\* mutation: the scan of ds.instances finds nothing
WorkloadInUseNever(w) == FALSE

\* DeleteWorkload's scan of ds.instances under the read lock
WorkloadInUse(w) == \E id \in DOMAIN instances : instances[id].WorkloadID = w

\* the first index of workloads that holds w, 0 when there is none
WorkloadIndex(w) ==
    IF \E i \in DOMAIN workloads : workloads[i] = w
    THEN SetMin({i \in DOMAIN workloads : workloads[i] = w})
    ELSE 0

\* DeleteWorkload: instancesLock is read-held to the end, tenantsLock is
\* taken once no instance is found to use the workload
DeleteWorkload(w, dbOK) ==
    /\ ~dsPanicked
    /\ LET i == WorkloadIndex(w)
           ret == IF WorkloadInUse(w) THEN "ErrWorkloadInUse"
                  ELSE IF i = 0 THEN "ErrWorkloadNotFound"
                  ELSE IF ~dbOK THEN "db" ELSE "nil"
       IN  /\ workloads' = IF ret = "nil" THEN DeleteAt(workloads, i) ELSE workloads
           /\ lockNest' = IF ret = "ErrWorkloadInUse" THEN lockNest
                          ELSE lockNest \cup Nest({"instancesLock"}, "tenantsLock")
           /\ lastDW' = [w |-> w, ret |-> ret, dbOK |-> dbOK,
                         inUse |-> \E id \in DOMAIN instances :
                                       instances[id].WorkloadID = w,
                         listed |-> w \in Range(workloads),
                         same |-> workloads' = workloads,
                         removed |-> Len(workloads') = Len(workloads) - 1,
                         refusedBefore |-> /\ lastDW # None
                                           /\ lastDW.w = w
                                           /\ lastDW.ret = "ErrWorkloadInUse"]
    /\ usa' = None
    /\ UNCHANGED <<instances, instanceLastStat, tenantInstances, blockDevices,
                   devices, attachments, instanceVolumes, nextAttach, dsPc,
                   dsPanicked>>
    /\ UNCHANGED <<statVars, lockVars>>
    /\ UNCHANGED <<ipVars, cnciVars, poolVars>>

\* the callers that are inside an AddInstance of instance id, and those
\* inside a DeleteInstance of it
Adding(id) == {q \in DSCallers : dsPc[q].pc = "ai_tenant" /\ dsPc[q].id = id}

Deleting(id) ==
    {q \in DSCallers : dsPc[q].pc \notin {"idle", "ai_tenant"} /\ dsPc[q].id = id}

\* AddInstance up to the release of instancesLock: the instance (of
\* workload w, with NodeID n) is written through (dbOK = FALSE: an error
\* return), cached, and its stat, with no usage yet, entered with
\* instanceLastStatLock taken inside instancesLock
AddInstance(p, id, w, n, dbOK) ==
    /\ ~dsPanicked
    /\ dsPc[p].pc = "idle"
    /\ IF ~dbOK
       THEN UNCHANGED <<instances, instanceLastStat, dsPc, lockNest, instanceNode,
                        lastUsage, deletedIDs>>
       ELSE /\ instances' = (id :> [WorkloadID |-> w]) @@ instances
            /\ instanceNode' = (id :> n) @@ instanceNode
            /\ instanceLastStat' = instanceLastStat \cup {id}
            /\ lastUsage' = (id :> NoUsage) @@ lastUsage
            /\ dsPc' = [dsPc EXCEPT ![p] = [DSIdle EXCEPT !.pc = "ai_tenant", !.id = id]]
            /\ lockNest' = lockNest \cup Nest({"instancesLock"}, "instanceLastStatLock")
            /\ deletedIDs' = deletedIDs \ {id}
    /\ raced' = IF dbOK THEN raced \cup Deleting(id) ELSE raced
    /\ usa' = None
    /\ UNCHANGED <<tenantInstances, workloads, blockDevices, devices, attachments,
                   instanceVolumes, nextAttach, dsPanicked, lastDW>>
    /\ UNCHANGED <<nodes, deletedNode, lastStat, nStats, lockVars>>
    /\ UNCHANGED <<ipVars, cnciVars, poolVars>>

\* AddInstance under tenantsLock: the instance enters the tenant's map
AddInstanceTenant(p) ==
    /\ ~dsPanicked
    /\ dsPc[p].pc = "ai_tenant"
    /\ tenantInstances' = tenantInstances \cup {dsPc[p].id}
    /\ dsPc' = [dsPc EXCEPT ![p] = DSIdle]
    /\ usa' = None
    /\ UNCHANGED <<instances, instanceLastStat, workloads, blockDevices, devices,
                   attachments, instanceVolumes, nextAttach, dsPanicked, lockNest,
                   lastDW>>
    /\ UNCHANGED <<statVars, lockVars>>
    /\ UNCHANGED <<ipVars, cnciVars, poolVars>>

\* DeleteInstance -> deleteInstance up to the release of
\* instanceLastStatLock; dbOK = FALSE: db.deleteInstance fails and the call
\* returns
DeleteInstance(p, id, dbOK) ==
    /\ ~dsPanicked
    /\ dsPc[p].pc = "idle"
    /\ IF ~dbOK
       THEN UNCHANGED <<instanceLastStat, dsPc, lastUsage>>
       ELSE /\ instanceLastStat' = instanceLastStat \ {id}
            /\ lastUsage' = MapDelete(lastUsage, id)
            /\ dsPc' = [dsPc EXCEPT ![p] = [DSIdle EXCEPT !.pc = "di_inst", !.id = id]]
    /\ raced' = IF dbOK /\ Adding(id) # {} THEN raced \cup {p} ELSE raced \ {p}
    /\ usa' = None
    /\ UNCHANGED <<instances, tenantInstances, workloads, blockDevices, devices,
                   attachments, instanceVolumes, nextAttach, dsPanicked, lockNest,
                   lastDW>>
    /\ UNCHANGED <<nodes, instanceNode, deletedNode, lastStat, deletedIDs, nStats, lockVars>>
    /\ UNCHANGED <<ipVars, cnciVars, poolVars>>

\* deleteInstance under instancesLock: i := ds.instances[instanceID] (nil
\* when there is none) and the delete
DeleteInstanceCache(p) ==
    /\ ~dsPanicked
    /\ dsPc[p].pc = "di_inst"
    /\ instances' = MapDelete(instances, dsPc[p].id)
    /\ instanceNode' = MapDelete(instanceNode, dsPc[p].id)
    /\ deletedNode' = [deletedNode EXCEPT ![p] =
                         IF dsPc[p].id \in DOMAIN instanceNode
                         THEN instanceNode[dsPc[p].id] ELSE NoNode]
    /\ dsPc' = [dsPc EXCEPT ![p].pc = "di_tenant",
                            ![p].found = dsPc[p].id \in DOMAIN instances]
    /\ usa' = None
    /\ UNCHANGED <<instanceLastStat, tenantInstances, workloads, blockDevices,
                   devices, attachments, instanceVolumes, nextAttach, dsPanicked,
                   lockNest, lastDW>>
    /\ UNCHANGED <<nodes, lastUsage, lastStat, deletedIDs, raced, nStats, lockVars>>
    /\ UNCHANGED <<ipVars, cnciVars, poolVars>>

\* deleteInstance under tenantsLock: i.TenantID on a nil i panics with the
\* lock held; else the instance leaves the tenant's map.  The node map is
\* skipped for an instance with no NodeID; the instance has no address and
\* ReleaseTenantIP("") returns before it takes a lock
DeleteInstanceTenant(p) ==
    /\ ~dsPanicked
    /\ dsPc[p].pc = "di_tenant"
    /\ IF ~dsPc[p].found
       THEN dsPanicked' = TRUE /\ UNCHANGED <<tenantInstances, dsPc>>
       ELSE /\ tenantInstances' = tenantInstances \ {dsPc[p].id}
            /\ dsPc' = [dsPc EXCEPT ![p].pc =
                          IF deletedNode[p] = NoNode THEN "di_attach" ELSE "di_node"]
            /\ UNCHANGED dsPanicked
    /\ usa' = None
    /\ UNCHANGED <<instances, instanceLastStat, workloads, blockDevices, devices,
                   attachments, instanceVolumes, nextAttach, lockNest, lastDW>>
    /\ UNCHANGED <<statVars, lockVars>>
    /\ UNCHANGED <<ipVars, cnciVars, poolVars>>

\* deleteInstance under nodesLock: delete(ds.nodes[i.NodeID].instances, id)
\* panics when the node is not in ds.nodes
DeleteInstanceNode(p) ==
    /\ ~dsPanicked
    /\ dsPc[p].pc = "di_node"
    /\ IF deletedNode[p] \notin DOMAIN nodes
       THEN dsPanicked' = TRUE /\ UNCHANGED <<nodes, dsPc>>
       ELSE /\ nodes' = [nodes EXCEPT ![deletedNode[p]] = @ \ {dsPc[p].id}]
            /\ dsPc' = [dsPc EXCEPT ![p].pc = "di_attach"]
            /\ UNCHANGED dsPanicked
    /\ usa' = None
    /\ UNCHANGED <<instances, instanceLastStat, tenantInstances, workloads,
                   blockDevices, devices, attachments, instanceVolumes, nextAttach,
                   lockNest, lastDW>>
    /\ UNCHANGED <<instanceNode, deletedNode, lastUsage, lastStat, deletedIDs, raced,
                   nStats, lockVars>>
    /\ UNCHANGED <<ipVars, cnciVars, poolVars>>

\* GetInstanceLastStats: GetInstance takes instancesLock for every stat
\* entry while instanceLastStatLock is read-held
GetInstanceLastStats ==
    /\ ~dsPanicked
    /\ instanceLastStat # {}
    /\ lockNest' = lockNest \cup Nest({"instanceLastStatLock"}, "instancesLock")
    /\ usa' = None
    /\ UNCHANGED <<instances, instanceLastStat, tenantInstances, workloads,
                   blockDevices, devices, attachments, instanceVolumes, nextAttach,
                   dsPc, dsPanicked, lastDW>>
    /\ UNCHANGED <<statVars, lockVars>>
    /\ UNCHANGED <<ipVars, cnciVars, poolVars>>

\* AddBlockDevice: written through, then cached under bdLock and entered in
\* the tenant's devices under tenantsLock, one lock after the other
AddBlockDevice(v, state, dbOK) ==
    /\ ~dsPanicked
    /\ blockDevices' = IF dbOK THEN (v :> state) @@ blockDevices ELSE blockDevices
    /\ devices' = IF dbOK THEN (v :> state) @@ devices ELSE devices
    /\ usa' = None
    /\ UNCHANGED <<instances, instanceLastStat, tenantInstances, workloads,
                   attachments, instanceVolumes, nextAttach, dsPc, dsPanicked,
                   lockNest, lastDW>>
    /\ UNCHANGED <<statVars, lockVars>>
    /\ UNCHANGED <<ipVars, cnciVars, poolVars>>

\* DeleteBlockDevice: tenantsLock is taken while bdLock is held
DeleteBlockDevice(v, dbOK) ==
    /\ ~dsPanicked
    /\ IF v \notin DOMAIN blockDevices \/ ~dbOK
       THEN UNCHANGED <<blockDevices, devices, lockNest>>
       ELSE /\ blockDevices' = MapDelete(blockDevices, v)
            /\ devices' = MapDelete(devices, v)
            /\ lockNest' = lockNest \cup Nest({"bdLock"}, "tenantsLock")
    /\ usa' = None
    /\ UNCHANGED <<instances, instanceLastStat, tenantInstances, workloads,
                   attachments, instanceVolumes, nextAttach, dsPc, dsPanicked,
                   lastDW>>
    /\ UNCHANGED <<statVars, lockVars>>
    /\ UNCHANGED <<ipVars, cnciVars, poolVars>>

\* GetBlockDevice, bd.State = state, UpdateBlockDevice on the caches in c:
\* nothing without the device, no change when the store fails; hl: the
\* locks the caller holds
SetBlockState(c, hl, v, state, dbOK) ==
    IF v \notin DOMAIN c.bd
    THEN [c EXCEPT !.nest = @ \cup Nest(hl, "bdLock")]
    ELSE IF ~dbOK
    THEN [c EXCEPT !.nest = @ \cup Nest(hl, "bdLock")]
    ELSE [c EXCEPT !.bd = (v :> state) @@ @,
                   !.dev = (v :> state) @@ @,
                   !.nest = @ \cup Nest(hl, "bdLock") \cup Nest(hl, "tenantsLock")]

\* the caches the storage attachment operations work on
Caches ==
    [att |-> attachments, iv |-> instanceVolumes, bd |-> blockDevices,
     dev |-> devices, next |-> nextAttach, nest |-> lockNest]

\* CreateStorageAttachment: the attachment is written through, the volume
\* marked in use, then the attachment and its link are cached
CreateStorageAttachment(instanceID, v, dbOK) ==
    /\ ~dsPanicked
    /\ IF ~dbOK \/ v \notin DOMAIN blockDevices
       THEN UNCHANGED <<blockDevices, devices, attachments, instanceVolumes,
                        nextAttach, lockNest>>
       ELSE LET c == SetBlockState(Caches, {}, v, InUse, TRUE)
                a == nextAttach
            IN  /\ nextAttach <= MaxAttachments
                /\ blockDevices' = c.bd
                /\ devices' = c.dev
                /\ lockNest' = c.nest
                /\ attachments' = (a :> [InstanceID |-> instanceID, BlockID |-> v])
                                     @@ attachments
                /\ instanceVolumes' = (<<instanceID, v>> :> a) @@ instanceVolumes
                /\ nextAttach' = nextAttach + 1
    /\ usa' = None
    /\ UNCHANGED <<instances, instanceLastStat, tenantInstances, workloads, dsPc,
                   dsPanicked, lastDW>>
    /\ UNCHANGED <<statVars, lockVars>>
    /\ UNCHANGED <<ipVars, cnciVars, poolVars>>

\* DeleteStorageAttachment: the attachment and the link of its pair leave
\* the caches
DeleteStorageAttachment(ID, dbOK) ==
    /\ ~dsPanicked
    /\ IF ~dbOK \/ ID \notin DOMAIN attachments
       THEN UNCHANGED <<attachments, instanceVolumes>>
       ELSE LET a == attachments[ID]
            IN  /\ attachments' = MapDelete(attachments, ID)
                /\ instanceVolumes' =
                      MapDelete(instanceVolumes, <<a.InstanceID, a.BlockID>>)
    /\ usa' = None
    /\ UNCHANGED <<instances, instanceLastStat, tenantInstances, workloads,
                   blockDevices, devices, nextAttach, dsPc, dsPanicked, lockNest,
                   lastDW>>
    /\ UNCHANGED <<statVars, lockVars>>
    /\ UNCHANGED <<ipVars, cnciVars, poolVars>>

\* mutation: no attachment is ever known
KnownNever(iv, key) == FALSE

\* _, ok := ds.instanceVolumes[key]
Known(iv, key) == key \in DOMAIN iv

\* updateStorageAttachments' first loop from volumes[n] on: an attachment
\* that is not known is cached under a fresh ID, written through, and its
\* volume marked in use (skipped when the store fails)
RECURSIVE AddUnknown(_, _, _, _, _)
AddUnknown(c, instanceID, volumes, n, dbOK) ==
    IF n > Len(volumes) THEN c
    ELSE LET v == volumes[n]
             key == <<instanceID, v>>
         IN  IF Known(c.iv, key)
             THEN AddUnknown(c, instanceID, volumes, n + 1, dbOK)
             ELSE LET c1 == [c EXCEPT
                               !.att = (c.next :> [InstanceID |-> instanceID,
                                                   BlockID |-> v]) @@ @,
                               !.iv = (key :> c.next) @@ @,
                               !.next = @ + 1]
                      c2 == IF dbOK THEN SetBlockState(c1, {"attachLock"}, v, InUse, dbOK)
                            ELSE c1
                  IN  AddUnknown(c2, instanceID, volumes, n + 1, dbOK)

\* the links the second loop deletes: those of the instance whose volume is
\* not in the list and whose block device is found
Dropped(c, instanceID, volumes) ==
    {k \in DOMAIN c.iv :
        /\ c.iv[k] \in DOMAIN c.att
        /\ c.att[c.iv[k]].InstanceID = instanceID
        /\ c.att[c.iv[k]].BlockID \notin Range(volumes)
        /\ c.att[c.iv[k]].BlockID \in DOMAIN c.bd}

\* the second loop: each volume goes back to available, the attachment and
\* the link of its pair are deleted (the order of the map does not matter:
\* the links differ in their volume)
RECURSIVE DropLinks(_, _, _)
DropLinks(c, ks, dbOK) ==
    IF ks = {} THEN c
    ELSE LET k == CHOOSE x \in ks : TRUE
             ID == c.iv[k]
             a == c.att[ID]
             c1 == SetBlockState(c, {"attachLock"}, a.BlockID, Available, dbOK)
             c2 == [c1 EXCEPT !.att = MapDelete(@, ID),
                              !.iv = MapDelete(@, <<a.InstanceID, a.BlockID>>)]
         IN  DropLinks(c2, ks \ {k}, dbOK)

\* the links of the instance that the second loop looks up and keeps
\* because GetBlockDevice fails
Orphaned(c, instanceID, volumes) ==
    {k \in DOMAIN c.iv :
        /\ c.iv[k] \in DOMAIN c.att
        /\ c.att[c.iv[k]].InstanceID = instanceID
        /\ c.att[c.iv[k]].BlockID \notin Range(volumes)
        /\ c.att[c.iv[k]].BlockID \notin DOMAIN c.bd}

\* updateStorageAttachments on the caches c, all under attachLock
UpdatedAttachments(c, instanceID, volumes, dbOK) ==
    LET c1 == AddUnknown(c, instanceID, volumes, 1, dbOK)
        c2 == DropLinks(c1, Dropped(c1, instanceID, volumes), dbOK)
    IN  IF Orphaned(c1, instanceID, volumes) = {} THEN c2
        ELSE [c2 EXCEPT !.nest = @ \cup Nest({"attachLock"}, "bdLock")]

\* the caches take the values in c
SetCaches(c) ==
    /\ attachments' = c.att
    /\ instanceVolumes' = c.iv
    /\ blockDevices' = c.bd
    /\ devices' = c.dev
    /\ nextAttach' = c.next
    /\ lockNest' = c.nest

\* the record of an updateStorageAttachments call: its arguments, whether
\* it repeats the call before it, and whether it changed a cache
Updated(instanceID, volumes, c) ==
    [instanceID |-> instanceID, volumes |-> volumes,
     again |-> usa # None /\ usa.instanceID = instanceID /\ usa.volumes = volumes,
     prevChanged |-> usa # None /\ usa.changed,
     changed |-> <<c.att, c.iv, c.bd, c.dev>>
                    # <<attachments, instanceVolumes, blockDevices, devices>>]

\* updateStorageAttachments as addInstanceStats calls it
updateStorageAttachments(instanceID, volumes, dbOK) ==
    /\ ~dsPanicked
    /\ LET c == UpdatedAttachments(Caches, instanceID, volumes, dbOK)
       IN  /\ c.next <= MaxAttachments + 1
           /\ SetCaches(c)
           /\ usa' = Updated(instanceID, volumes, c)
    /\ UNCHANGED <<instances, instanceLastStat, tenantInstances, workloads, dsPc,
                   dsPanicked, lastDW>>
    /\ UNCHANGED <<statVars, lockVars>>
    /\ UNCHANGED <<ipVars, cnciVars, poolVars>>

\* deleteInstance's last step: updateStorageAttachments(instanceID, nil)
DeleteInstanceAttachments(p, dbOK) ==
    /\ ~dsPanicked
    /\ dsPc[p].pc = "di_attach"
    /\ LET c == UpdatedAttachments(Caches, dsPc[p].id, <<>>, dbOK)
       IN  SetCaches(c) /\ usa' = Updated(dsPc[p].id, <<>>, c)
    /\ dsPc' = [dsPc EXCEPT ![p] = DSIdle]
    /\ deletedIDs' = deletedIDs \cup {dsPc[p].id}
    /\ UNCHANGED <<instances, instanceLastStat, tenantInstances, workloads,
                   dsPanicked, lastDW>>
    /\ UNCHANGED <<nodes, instanceNode, deletedNode, lastUsage, lastStat, raced,
                   nStats, lockVars>>
    /\ UNCHANGED <<ipVars, cnciVars, poolVars>>

(***************************************************************************)
(* Node and instance statistics.  A stats frame carries one instance       *)
(* entry; a frame is handled in one step.                                  *)
(***************************************************************************)
\* the usage figures of the stat entries: an agent reports -1 for a figure
\* it does not have
UsageInputs == {<<2, 1, 0>>, <<1, 2, -1>>}

\* reduceToZero
reduceToZero(v) == IF v < 0 THEN 0 ELSE v

\* the usage of the new CiaoServerStats
StatUsage(u) == <<reduceToZero(u[1]), reduceToZero(u[2]), reduceToZero(u[3])>>

\* lastInstanceStat := ds.instanceLastStat[id]: the zero value when there
\* is no entry
LastUsage(id) == IF id \in DOMAIN lastUsage THEN lastUsage[id] ELSE NoUsage

\* deltaUsage: the new usage minus the last one
DeltaUsage(cur, last) == <<cur[1] - last[1], cur[2] - last[2], cur[3] - last[3]>>

\* addNodeStat: a node that is not known is entered with no instances
addNodeStat(n) == IF n \in DOMAIN nodes THEN nodes ELSE (n :> {}) @@ nodes

\* HandleStats of a frame of node n with one entry, for instance id; load:
\* the frame carries node statistics (stat.Load # -1) and addNodeStat runs.
\* addInstanceStats passes the usage delta to updateTenantUsage, replaces
\* the last stat, moves a cached instance to the node (a node that is not
\* in ds.nodes is a nil dereference) and updates the storage attachments
HandleStats(n, load, id, usage, volumes, dbOK) ==
    /\ ~dsPanicked
    /\ nStats < MaxStats
    /\ nStats' = nStats + 1
    /\ LET nodes1 == IF load THEN addNodeStat(n) ELSE nodes
           cur == StatUsage(usage)
           known == id \in DOMAIN instances
           nilNode == known /\ n \notin DOMAIN nodes1
           c0 == IF known
                 THEN [Caches EXCEPT !.nest = @ \cup Nest({"instancesLock"}, "nodesLock")]
                 ELSE Caches
           c == IF nilNode THEN c0 ELSE UpdatedAttachments(c0, id, volumes, dbOK)
       IN  /\ c.next <= MaxAttachments + 1
           /\ instanceLastStat' = instanceLastStat \cup {id}
           /\ lastUsage' = (id :> cur) @@ lastUsage
           /\ instanceNode' = IF known THEN [instanceNode EXCEPT ![id] = n]
                               ELSE instanceNode
           /\ dsPanicked' = nilNode
           /\ nodes' = IF known /\ ~nilNode THEN [nodes1 EXCEPT ![n] = @ \cup {id}]
                        ELSE nodes1
           /\ SetCaches(c)
           /\ usa' = IF nilNode THEN None ELSE Updated(id, volumes, c)
           /\ lastStat' = [id |-> id,
                           delta |-> DeltaUsage(cur, LastUsage(id)),
                           after |-> id \in deletedIDs,
                           entered |-> id \notin instanceLastStat,
                           made |-> DOMAIN c.att \ DOMAIN attachments,
                           inUse |-> {v \in DOMAIN c.bd :
                                        c.bd[v] = InUse /\ blockDevices[v] # InUse}]
    /\ raced' = raced \cup Deleting(id)
    /\ UNCHANGED <<instances, tenantInstances, workloads, dsPc, lastDW>>
    /\ UNCHANGED <<deletedNode, deletedIDs, lockVars>>
    /\ UNCHANGED <<ipVars, cnciVars, poolVars>>

\* InstanceStopped: updateInstanceStatus writes the stat through (dbOK =
\* FALSE: an error return) and replaces the last stat by one with no
\* usage; then the instance loses its NodeID and leaves the node's map.
\* An instance that is not cached, or a node that is not in ds.nodes, is
\* a nil dereference
InstanceStopped(id, dbOK) ==
    /\ ~dsPanicked
    /\ IF ~dbOK
       THEN UNCHANGED <<instanceLastStat, lastUsage, instanceNode, nodes,
                        dsPanicked, raced>>
       ELSE LET known == id \in DOMAIN instances
                oldNodeID == IF known THEN instanceNode[id] ELSE NoNode
                nilNode == oldNodeID # NoNode /\ oldNodeID \notin DOMAIN nodes
            IN  /\ instanceLastStat' = instanceLastStat \cup {id}
                /\ lastUsage' = (id :> NoUsage) @@ lastUsage
                /\ dsPanicked' = (~known \/ nilNode)
                /\ instanceNode' = IF known THEN [instanceNode EXCEPT ![id] = NoNode]
                                    ELSE instanceNode
                /\ nodes' = IF oldNodeID # NoNode /\ ~nilNode
                             THEN [nodes EXCEPT ![oldNodeID] = @ \ {id}]
                             ELSE nodes
                /\ raced' = raced \cup Deleting(id)
    /\ usa' = None
    /\ UNCHANGED <<instances, tenantInstances, workloads, blockDevices, devices,
                   attachments, instanceVolumes, nextAttach, dsPc, lockNest, lastDW>>
    /\ UNCHANGED <<deletedNode, lastStat, deletedIDs, nStats, lockVars>>
    /\ UNCHANGED <<ipVars, cnciVars, poolVars>>

(***************************************************************************)
(* The domain locks (sync.RWMutex) as the instance operations take them.   *)
(* An operation is the sequence of its lock calls; a goroutine does one    *)
(* lock call in a step.                                                    *)
(***************************************************************************)
\* AddInstance: instanceLastStatLock inside instancesLock, then tenantsLock
AddInstanceLocks ==
    << <<"Lock", "instancesLock">>, <<"Lock", "instanceLastStatLock">>,
       <<"Unlock", "instanceLastStatLock">>, <<"Unlock", "instancesLock">>,
       <<"Lock", "tenantsLock">>, <<"Unlock", "tenantsLock">> >>

\* GetInstanceLastStats with one stat entry: GetInstance read-locks
\* instancesLock while instanceLastStatLock is read-locked
GetInstanceLastStatsLocks ==
    << <<"RLock", "instanceLastStatLock">>, <<"RLock", "instancesLock">>,
       <<"RUnlock", "instancesLock">>, <<"RUnlock", "instanceLastStatLock">> >>

\* deleteInstance of an instance with a node: one lock after the other
deleteInstanceLocks ==
    << <<"Lock", "instanceLastStatLock">>, <<"Unlock", "instanceLastStatLock">>,
       <<"Lock", "instancesLock">>, <<"Unlock", "instancesLock">>,
       <<"Lock", "tenantsLock">>, <<"Unlock", "tenantsLock">>,
       <<"Lock", "nodesLock">>, <<"Unlock", "nodesLock">> >>

\* addInstanceStats of one entry: nodesLock inside instancesLock
addInstanceStatsLocks ==
    << <<"Lock", "instanceLastStatLock">>, <<"Unlock", "instanceLastStatLock">>,
       <<"Lock", "instancesLock">>, <<"Lock", "nodesLock">>,
       <<"Unlock", "nodesLock">>, <<"Unlock", "instancesLock">> >>

LockOperations ==
    {AddInstanceLocks, GetInstanceLastStatsLocks, deleteInstanceLocks,
     addInstanceStatsLocks}

\* a goroutine at rest calls an operation
StartOperation(g, prog) ==
    /\ lockProg[g] = <<>>
    /\ lockProg' = [lockProg EXCEPT ![g] = prog]
    /\ UNCHANGED lockHolders
    /\ UNCHANGED <<instances, instanceLastStat, tenantInstances, workloads,
                   blockDevices, devices, attachments, instanceVolumes, nextAttach,
                   dsPc, dsPanicked, lockNest, lastDW, usa, statVars>>
    /\ UNCHANGED <<ipVars, cnciVars, poolVars>>

\* Lock waits until nobody holds the lock, RLock until no writer holds it
CanTake(op, l) ==
    IF op = "Lock" THEN lockHolders[l] = {}
    ELSE \A h \in lockHolders[l] : h[2] = "RLock"

\* the next call of the goroutine is Lock or RLock, and it is granted
TakeLock(g) ==
    /\ lockProg[g] # <<>>
    /\ LET op == Head(lockProg[g])[1]
           l == Head(lockProg[g])[2]
       IN  /\ op \in {"Lock", "RLock"}
           /\ CanTake(op, l)
           /\ lockHolders' = [lockHolders EXCEPT ![l] = @ \cup {<<g, op>>}]
    /\ lockProg' = [lockProg EXCEPT ![g] = Tail(@)]
    /\ UNCHANGED <<instances, instanceLastStat, tenantInstances, workloads,
                   blockDevices, devices, attachments, instanceVolumes, nextAttach,
                   dsPc, dsPanicked, lockNest, lastDW, usa, statVars>>
    /\ UNCHANGED <<ipVars, cnciVars, poolVars>>

\* the next call of the goroutine is Unlock or RUnlock
ReleaseLock(g) ==
    /\ lockProg[g] # <<>>
    /\ LET op == Head(lockProg[g])[1]
           l == Head(lockProg[g])[2]
       IN  /\ op \in {"Unlock", "RUnlock"}
           /\ lockHolders' = [lockHolders EXCEPT ![l] =
                                {h \in @ : h[1] # g}]
    /\ lockProg' = [lockProg EXCEPT ![g] = Tail(@)]
    /\ UNCHANGED <<instances, instanceLastStat, tenantInstances, workloads,
                   blockDevices, devices, attachments, instanceVolumes, nextAttach,
                   dsPc, dsPanicked, lockNest, lastDW, usa, statVars>>
    /\ UNCHANGED <<ipVars, cnciVars, poolVars>>

(***************************************************************************)
(* Tenant IP allocator.                                                    *)
(***************************************************************************)

\* binary.BigEndian.Uint16 of two bytes
Uint16(b0, b1) == (b0 * 256 + b1) % 65536

\* binary.BigEndian.PutUint16
PutUint16(v) == <<(v % 65536) \div 256, v % 256>>

\* an address 172.b0.b1.rest as its four bytes
IPv4(a, b, c, d) == <<a % 256, b % 256, c % 256, d % 256>>

\* getMaxHost: -1 stands for the error return
getMaxHost(bits) ==
    IF bits < 0 \/ bits > 32 THEN -1
    ELSE LET maxHosts == Pow2(32 - bits) - 3
         IN  IF maxHosts <= 0 THEN -1 ELSE maxHosts

\* len(network[k]) of a Go map of maps: 0 for a missing key
NetLen(net, k) == IF k \in DOMAIN net THEN Cardinality(net[k]) ELSE 0

\* mutation: a subnet that holds exactly maxHosts addresses counts as having
\* space
RECURSIVE ScanSubnetsLoose(_, _, _, _, _)
ScanSubnetsLoose(sorted, net, maxHosts, i, subnetInt) ==
    IF i > Len(sorted) THEN subnetInt
    ELSE ScanSubnetsLoose(sorted, net, maxHosts, i + 1,
            IF NetLen(net, sorted[i]) <= maxHosts
                THEN sorted[i] % 65536 ELSE subnetInt)

\* the loop over the sorted subnets: every subnet with space overwrites
\* subnetInt, there is no break
RECURSIVE ScanSubnets(_, _, _, _, _)
ScanSubnets(sorted, net, maxHosts, i, subnetInt) ==
    IF i > Len(sorted) THEN subnetInt
    ELSE ScanSubnets(sorted, net, maxHosts, i + 1,
            IF NetLen(net, sorted[i]) < maxHosts
                THEN sorted[i] % 65536 ELSE subnetInt)

\* the search for an unused subnet key from 172.16.0: <<b0, b1>> of the key
\* found, or <<>> when the scan passes 172.31.255
RECURSIVE ScanNewSubnet(_, _, _)
ScanNewSubnet(net, b0, b1) ==
    IF Uint16(b0, b1) \notin DOMAIN net THEN <<b0, b1>>
    ELSE IF b1 = 255
         THEN IF b0 = 31 THEN <<>> ELSE ScanNewSubnet(net, b0 + 1, 0)
         ELSE ScanNewSubnet(net, b0, b1 + 1)

\* the host scan: the first host byte from rest that is not reserved, -1
\* when the scan reaches 255 with every slot taken
RECURSIVE ScanHostFrom(_, _)
ScanHostFrom(hosts, rest) ==
    IF rest \notin hosts THEN rest
    ELSE IF rest = 255 THEN -1
    ELSE ScanHostFrom(hosts, rest + 1)

FirstHost == 2

\* mutation: the scan hands out its first slot without looking at it
ScanHostUnchecked(hosts) == FirstHost

\* mutation: the scan starts one slot too high
ScanHostOffByOne(hosts) == ScanHostFrom(hosts, FirstHost + 1)

ScanHost(hosts) == ScanHostFrom(hosts, FirstHost)

SortInts(s) == SortSeq(s, LAMBDA a, b : a < b)

\* the part of AllocateTenantIP that runs under tenantsLock, as a record
\*   kind: "ok" | "badconfig" | "nosubnets" | "nohosts" | "nilmap"
AllocPlan(net, subs, bits) ==
    LET maxHosts == getMaxHost(bits)
        sorted   == SortInts(subs)
        found    == ScanSubnets(sorted, net, maxHosts, 1, 0)
        fresh    == ScanNewSubnet(net, 16, 0)
        isNew    == found = 0
        bytes    == IF isNew THEN fresh ELSE PutUint16(found)
        subnetInt == IF isNew THEN Uint16(fresh[1], fresh[2]) ELSE found
        net1     == IF isNew THEN (subnetInt :> {}) @@ net ELSE net
        subs1    == IF isNew THEN Append(sorted, subnetInt) ELSE sorted
    IN  IF maxHosts = -1
            THEN [kind |-> "badconfig", net |-> net, subs |-> subs]
        ELSE IF isNew /\ fresh = <<>>
            THEN [kind |-> "nosubnets", net |-> net, subs |-> sorted]
        ELSE IF subnetInt \notin DOMAIN net1
            THEN [kind |-> "nilmap", net |-> net1, subs |-> subs1]
        ELSE LET rest == ScanHost(net1[subnetInt])
             IN  IF rest = -1
                 THEN [kind |-> "nohosts", net |-> net1, subs |-> subs1]
                 ELSE [kind |-> "ok",
                       net  |-> [net1 EXCEPT ![subnetInt] = @ \cup {rest}],
                       subs |-> subs1,
                       subnetInt |-> subnetInt,
                       rest |-> rest,
                       isNew |-> isNew,
                       ip |-> IPv4(172, bytes[1], bytes[2], rest)]

\* AllocateTenantIP, from the call to the release of tenantsLock
AllocateTenantIP(p) ==
    /\ ipPc[p] = "idle"
    /\ tenantsLock = "free"
    /\ nAlloc < MaxAllocs
    /\ nAlloc' = nAlloc + 1
    /\ LET r == AllocPlan(network, subnets, SubnetBits)
       IN  /\ network' = r.net
           /\ subnets' = r.subs
           \* the invalid-config return leaves tenantsLock locked; writing
           \* to a nil host map panics with the lock held
           /\ tenantsLock' = IF r.kind \in {"badconfig", "nilmap"}
                                THEN "held" ELSE "free"
           /\ panicked' = (r.kind = "nilmap")
           /\ ipPc' = [ipPc EXCEPT ![p] = IF r.kind = "ok" THEN "claim" ELSE "idle"]
           /\ ipLocal' = [ipLocal EXCEPT ![p] = IF r.kind = "ok" THEN r.ip ELSE None]
           /\ lastAlloc' = [kind |-> r.kind, preNet |-> network,
                            preSubs |-> subnets, bits |-> SubnetBits,
                            ip |-> IF r.kind = "ok" THEN r.ip ELSE None,
                            subnetInt |-> IF r.kind = "ok" THEN r.subnetInt ELSE 0,
                            rest |-> IF r.kind = "ok" THEN r.rest ELSE 0,
                            pend |-> relLow]
           /\ roundTrip' = IF r.kind = "ok"
                           THEN [stage |-> "reserved", by |-> p, ip |-> r.ip,
                                 preNet |-> network, preSubs |-> subnets]
                           ELSE None
           /\ relLow' = IF r.kind = "ok" /\ relLow # None
                           /\ relLow.subnetInt = r.subnetInt
                        THEN None ELSE relLow
    /\ UNCHANGED <<SubnetBits, held, lastRet, instanceIPs>>
    /\ UNCHANGED <<cnciVars, poolVars, dsVars>>

\* AllocateTenantIP after the lock: claimTenantIP in the persistent store,
\* then (no CNCI manager attached) the address is returned
AllocateTenantIPReturn(p) ==
    /\ ipPc[p] = "claim"
    /\ \E claimed \in BOOLEAN :
        /\ ipPc' = [ipPc EXCEPT ![p] = "idle"]
        /\ ipLocal' = [ipLocal EXCEPT ![p] = None]
        /\ held' = IF claimed THEN held \cup {ipLocal[p]} ELSE held
        /\ lastRet' = IF claimed
                      THEN [ip |-> ipLocal[p], wasHeld |-> ipLocal[p] \in held]
                      ELSE lastRet
        /\ roundTrip' = IF claimed /\ roundTrip # None /\ roundTrip.by = p
                           /\ roundTrip.stage = "reserved"
                        THEN [roundTrip EXCEPT !.stage = "returned"]
                        ELSE None
    /\ UNCHANGED <<network, subnets, SubnetBits, tenantsLock, panicked, nAlloc,
                   lastAlloc, relLow, instanceIPs>>
    /\ UNCHANGED <<cnciVars, poolVars, dsVars>>

\* append(subnets[:i], subnets[i+1:]...) on a Go slice (0-based i): <<>> when
\* the slice expressions are out of range, which panics
SliceOutOfRange(s, i) == ~(i + 1 <= Len(s))

RemoveIndex(s, i) == SubSeq(s, 1, i) \o SubSeq(s, i + 2, Len(s))

\* the lock section of ReleaseTenantIP as a record
ReleasePlan(net, subs, ip) ==
    LET subnetInt == Uint16(ip[2], ip[3])
        host == ip[4]
        net1 == IF subnetInt \in DOMAIN net
                THEN [net EXCEPT ![subnetInt] = @ \ {host}] ELSE net
        empty == NetLen(net1, subnetInt) = 0
        net2 == [k \in DOMAIN net1 \ {subnetInt} |-> net1[k]]
    IN  IF ~empty
            THEN [kind |-> "ok", net |-> net1, subs |-> subs, removeSubnet |-> FALSE]
        ELSE IF Len(subs) > 1
            THEN IF SliceOutOfRange(subs, subnetInt)
                 THEN [kind |-> "panic", net |-> net2, subs |-> subs,
                       removeSubnet |-> FALSE]
                 ELSE [kind |-> "ok", net |-> net2,
                       subs |-> RemoveIndex(subs, subnetInt),
                       removeSubnet |-> TRUE]
        ELSE [kind |-> "ok", net |-> net2, subs |-> <<>>, removeSubnet |-> TRUE]

LowestReserved(net, ip) ==
    LET subnetInt == Uint16(ip[2], ip[3])
    IN  /\ subnetInt \in DOMAIN net
        /\ ip[4] \in net[subnetInt]
        /\ \A h \in net[subnetInt] : ip[4] <= h
        /\ net[subnetInt] # {ip[4]}

\* addresses a caller may hand to ReleaseTenantIP: one it holds, or one of
\* the tenant range that is not reserved at all
ProbeIPs == {IPv4(172, 16, 0, 2), IPv4(172, 16, 1, 2)}

Reserved(net, ip) ==
    /\ Uint16(ip[2], ip[3]) \in DOMAIN net
    /\ ip[4] \in net[Uint16(ip[2], ip[3])]

Releasable == held \cup {ip \in ProbeIPs : ~Reserved(network, ip)}

\* ReleaseTenantIP: what the call does to the tenant
ReleaseTenantIPBody(p, ip) ==
    /\ ipPc[p] = "idle"
    /\ tenantsLock = "free"
    /\ ip \in Releasable
    /\ LET r == ReleasePlan(network, subnets, ip)
       IN  /\ network' = r.net
           /\ subnets' = r.subs
           /\ panicked' = (r.kind = "panic")
           /\ tenantsLock' = IF r.kind = "panic" THEN "held" ELSE "free"
           /\ roundTrip' = IF roundTrip # None /\ roundTrip.by = p
                              /\ roundTrip.stage = "returned" /\ roundTrip.ip = ip
                           THEN [roundTrip EXCEPT !.stage = "released"]
                           ELSE None
           /\ relLow' = IF r.kind = "ok" /\ LowestReserved(network, ip)
                        THEN [subnetInt |-> Uint16(ip[2], ip[3]), rest |-> ip[4]]
                        ELSE IF relLow # None
                                /\ relLow.subnetInt = Uint16(ip[2], ip[3])
                             THEN None ELSE relLow
    /\ held' = held \ {ip}
    /\ UNCHANGED <<SubnetBits, ipPc, ipLocal, nAlloc, lastAlloc, lastRet>>

\* ReleaseTenantIP (no CNCI manager attached)
ReleaseTenantIP(p, ip) ==
    /\ ReleaseTenantIPBody(p, ip)
    /\ UNCHANGED instanceIPs
    /\ UNCHANGED <<cnciVars, poolVars, dsVars>>

\* JSONPatchTenant: the cached SubnetBits takes the patched value
JSONPatchTenant(bits) ==
    /\ tenantsLock = "free"
    /\ bits # SubnetBits
    /\ SubnetBits' = bits
    /\ roundTrip' = None
    /\ UNCHANGED <<network, subnets, tenantsLock, panicked, ipPc, ipLocal, held,
                   nAlloc, lastAlloc, lastRet, relLow, instanceIPs>>
    /\ UNCHANGED <<cnciVars, poolVars, dsVars>>

EmptyNet == [k \in {} |-> {}]

IPStart(bitsChoice) ==
    /\ network = EmptyNet
    /\ subnets = <<>>
    /\ SubnetBits \in bitsChoice
    /\ tenantsLock = "free"
    /\ panicked = FALSE
    /\ ipPc = [p \in IPCallers |-> "idle"]
    /\ ipLocal = [p \in IPCallers |-> None]
    /\ held = {}
    /\ nAlloc = 0
    /\ lastAlloc = None
    /\ lastRet = None
    /\ roundTrip = None
    /\ relLow = None
    /\ instanceIPs = {}

(***************************************************************************)
(* The allocator with the tenant's CNCI manager attached (CNCIctrl # nil). *)
(***************************************************************************)
\* the goroutine in which a caller of the datastore runs the manager's code
Cn(p) == IF p = "c1" THEN -1 ELSE -2

\* subnetInt of an address: binary.BigEndian.Uint16(ipBytes[1:3])
SubnetOf(ip) == Uint16(ip[2], ip[3])

\* AllocateTenantIP after the lock: db.claimTenantIP; an error returns
\* without the address, which stays reserved
ClaimTenantIP(p, claimed) ==
    /\ ipPc[p] = "claim"
    /\ ipPc' = [ipPc EXCEPT ![p] = IF claimed THEN "wfa" ELSE "idle"]
    /\ ipLocal' = IF claimed THEN ipLocal ELSE [ipLocal EXCEPT ![p] = None]
    /\ roundTrip' = IF claimed THEN roundTrip ELSE None
    /\ UNCHANGED <<network, subnets, SubnetBits, tenantsLock, panicked, held,
                   nAlloc, lastAlloc, lastRet, relLow, instanceIPs>>
    /\ UNCHANGED <<cnciVars, poolVars, dsVars>>

\* AllocateTenantIP calls mgr.WaitForActive(subnetInt)
AllocateWaitForActive(p) ==
    /\ ipPc[p] = "wfa"
    /\ SubnetOf(ipLocal[p]) \in CNCISubnets
    /\ \/ WaitForActiveExisting(Cn(p), SubnetOf(ipLocal[p]))
       \/ \E launched \in BOOLEAN :
             WaitForActiveLaunch(Cn(p), SubnetOf(ipLocal[p]), launched)

\* WaitForActive returns to AllocateTenantIP, after waitForActive or after
\* the deferred function of a launch, and AllocateTenantIP returns the
\* error or the address
AllocateTenantIPReturns(p) ==
    /\ ipPc[p] = "wfa"
    /\ \/ WfaReturnBody(Cn(p))
       \/ proc[Cn(p)].pc = "w_clear" /\ DeferClearBody(Cn(p))
    /\ LET ok == proc[Cn(p)].ret = "ok"
       IN  /\ held' = IF ok THEN held \cup {ipLocal[p]} ELSE held
           /\ lastRet' = IF ok
                         THEN [ip |-> ipLocal[p], wasHeld |-> ipLocal[p] \in held]
                         ELSE lastRet
           /\ roundTrip' = IF ok /\ roundTrip # None /\ roundTrip.by = p
                              /\ roundTrip.stage = "reserved"
                           THEN [roundTrip EXCEPT !.stage = "returned"]
                           ELSE None
    /\ ipPc' = [ipPc EXCEPT ![p] = "idle"]
    /\ ipLocal' = [ipLocal EXCEPT ![p] = None]
    /\ UNCHANGED <<network, subnets, SubnetBits, tenantsLock, panicked, nAlloc,
                   lastAlloc, relLow, instanceIPs>>
    /\ UNCHANGED <<poolVars, dsVars>>

\* AddInstance of an instance that was given an address AllocateTenantIP
\* returned: the instance is in Datastore.instances
AddInstanceIP(ip) ==
    /\ ip \in held \ instanceIPs
    /\ instanceIPs' = instanceIPs \cup {ip}
    /\ UNCHANGED <<network, subnets, SubnetBits, tenantsLock, panicked, ipPc,
                   ipLocal, held, nAlloc, lastAlloc, lastRet, roundTrip, relLow>>
    /\ UNCHANGED <<cnciVars, poolVars, dsVars>>

\* ReleaseTenantIP of an address AllocateTenantIP returned, by deleteInstance
\* once the instance has left Datastore.instances or by a caller that has
\* launched none: under tenantsLock, ScheduleRemoveSubnet when the host map
\* of the subnet has become empty
ReleaseTenantIPCNCI(p, ip) ==
    /\ ip \in held
    /\ ReleaseTenantIPBody(p, ip)
    /\ instanceIPs' = instanceIPs \ {ip}
    /\ IF ReleasePlan(network, subnets, ip).removeSubnet
       THEN /\ SubnetOf(ip) \in CNCISubnets
            /\ \/ ScheduleRemoveSubnetNoneBody(Cn(p), SubnetOf(ip))
               \/ ScheduleRemoveSubnetBody(Cn(p), SubnetOf(ip))
       ELSE UNCHANGED cnciVars
    /\ UNCHANGED <<poolVars, dsVars>>

\* the launcher reports a CNCI it was asked to start
LaunchedCNCIAdded(id) == recs[id].state = Pending /\ CNCIAdded(id)

\* the launcher reports a CNCI it was asked to stop
StoppedCNCIRemoved(id) == recs[id].state = Stopping /\ CNCIRemoved(id)

InitIP == IPStart(BitsChoices) /\ CNCIStart /\ PoolStart /\ DSStart

NextIP ==
    \/ \E p \in IPCallers : AllocateTenantIP(p)
    \/ \E p \in IPCallers : AllocateTenantIPReturn(p)
    \/ \E p \in IPCallers : \E ip \in Releasable : ReleaseTenantIP(p, ip)
    \/ \E bits \in BitsChoices : JSONPatchTenant(bits)

SpecIP == InitIP /\ [][NextIP]_vars

\* the allocator of a tenant whose configuration is patched to subnet sizes
\* that getMaxHost accepts (30) and refuses (31)
PatchBits == {30, 31}

InitConfig == IPStart({30}) /\ CNCIStart /\ PoolStart /\ DSStart

NextConfig ==
    \/ \E p \in IPCallers : AllocateTenantIP(p)
    \/ \E p \in IPCallers : AllocateTenantIPReturn(p)
    \/ \E p \in IPCallers : \E ip \in Releasable : ReleaseTenantIP(p, ip)
    \/ \E bits \in PatchBits : JSONPatchTenant(bits)

SpecConfig == InitConfig /\ [][NextConfig]_vars

InitCNCI == CNCIStart /\ IPStart({24}) /\ PoolStart /\ DSStart

NextCNCI ==
    \/ \E p \in CNCICallers, k \in CNCISubnets : WaitForActiveExisting(p, k)
    \/ \E p \in CNCICallers, k \in CNCISubnets, launched \in BOOLEAN :
          WaitForActiveLaunch(p, k, launched)
    \/ \E q \in CNCICallers \cup TimerIds : ReceiveEvent(q)
    \/ \E q \in CNCICallers \cup TimerIds : EventTimeout(q)
    \/ \E q \in CNCICallers \cup TimerIds : DeferClose(q)
    \/ \E q \in CNCICallers \cup TimerIds : DeferClear(q)
    \/ \E p \in CNCICallers : WfaLookup(p)
    \/ \E p \in CNCICallers : WfaActive(p)
    \/ \E p \in CNCICallers : WfaReadCh(p)
    \/ \E p \in CNCICallers : WfaReceive(p)
    \/ \E p \in CNCICallers : WfaClosed(p)
    \/ \E p \in CNCICallers : WfaActive2(p)
    \/ \E p \in CNCICallers : WfaReturn(p)
    \/ \E p \in CNCICallers, k \in CNCISubnets : ScheduleRemoveSubnetNone(p, k)
    \/ \E p \in CNCICallers, k \in CNCISubnets : ScheduleRemoveSubnet(p, k)
    \/ \E t \in TimerIds : TimerFire(t)
    \/ \E t \in TimerIds : TimerCallback(t)
    \/ \E p \in CNCICallers, k \in CNCISubnets, deleted \in BOOLEAN :
          RemoveSubnet(p, k, deleted)
    \/ \E t \in TimerIds, deleted \in BOOLEAN : TimerRemoveSubnet(t, deleted)
    \/ \E p \in CNCICallers : Shutdown(p)
    \/ \E id \in DOMAIN recs : CNCIAdded(id)
    \/ \E id \in DOMAIN recs : CNCIRemoved(id)
    \/ \E id \in DOMAIN recs : CNCIStopped(id)
    \/ \E id \in DOMAIN recs : StartFailure(id)
    \/ SendOnClosed

SpecCNCI == InitCNCI /\ [][NextCNCI]_vars

\* the steps goroutines take by themselves once they are running: receives,
\* the 2-minute timeout of waitForEventTimeout, deferred functions, lock
\* sections of calls under way, timer callbacks, the panic of a send on a
\* closed channel
GoroutineStep(q) ==
    \/ ReceiveEvent(q)
    \/ EventTimeout(q)
    \/ DeferClose(q)
    \/ DeferClear(q)
    \/ q \in CNCICallers /\ WfaLookup(q)
    \/ q \in CNCICallers /\ WfaActive(q)
    \/ q \in CNCICallers /\ WfaReadCh(q)
    \/ q \in CNCICallers /\ WfaReceive(q)
    \/ q \in CNCICallers /\ WfaClosed(q)
    \/ q \in CNCICallers /\ WfaActive2(q)
    \/ q \in CNCICallers /\ WfaReturn(q)
    \/ q \in TimerIds /\ TimerFire(q)
    \/ q \in TimerIds /\ TimerCallback(q)
    \/ q \in TimerIds /\ \E deleted \in BOOLEAN : TimerRemoveSubnet(q, deleted)

\* SpecCNCI with a fair scheduler: a goroutine that can take a step does
\* so, timers fire
FairCNCI ==
    /\ SpecCNCI
    /\ \A q \in CNCICallers \cup TimerIds : WF_vars(GoroutineStep(q))
    /\ WF_vars(SendOnClosed)

InitPool == PoolStart /\ IPStart({24}) /\ CNCIStart /\ DSStart

\* the IDs given out so far
IDsUsed == 1 .. (nextID - 1)

NextPool ==
    \/ \E pool \in PoolInputs, dbOK \in BOOLEAN : AddPool(pool, dbOK)
    \/ \E id \in IDsUsed : AddPoolRollback(id)
    \/ \E id \in IDsUsed : DeletePool(id)
    \/ \E id \in IDsUsed, c \in CIDRInputs, dbOK \in BOOLEAN :
          AddExternalSubnet(id, c, dbOK)
    \/ \E id \in IDsUsed, l \in AddrLists, dbOK \in BOOLEAN : AddExternalIPs(id, l, dbOK)
    \/ \E id \in IDsUsed, s \in IDsUsed, dbOK \in BOOLEAN : DeleteSubnet(id, s, dbOK)
    \/ \E id \in IDsUsed, a \in IDsUsed, dbOK \in BOOLEAN : DeleteExternalIP(id, a, dbOK)
    \/ \E id \in IDsUsed, found, addOK, updOK \in BOOLEAN :
          MapExternalIP(id, found, addOK, updOK)
    \/ \E a \in DOMAIN mappedIPs \cup AddrInputs, delOK, updOK \in BOOLEAN :
          UnMapExternalIP(a, delOK, updOK)

SpecPool == InitPool /\ [][NextPool]_vars

InitDS == DSStart /\ IPStart({24}) /\ CNCIStart /\ PoolStart

\* instances and workloads
NextInst ==
    \/ \E w \in WorkloadIDs, dbOK \in BOOLEAN : AddWorkload(w, dbOK)
    \/ \E w \in WorkloadIDs, dbOK \in BOOLEAN : DeleteWorkload(w, dbOK)
    \/ \E p \in Adders, id \in InstanceIDs, w \in InstanceWorkloads, dbOK \in BOOLEAN :
          AddInstance(p, id, w, NoNode, dbOK)
    \/ \E p \in DSCallers : AddInstanceTenant(p)
    \/ \E p \in Deleters, id \in InstanceIDs, dbOK \in BOOLEAN :
          DeleteInstance(p, id, dbOK)
    \/ \E p \in DSCallers : DeleteInstanceCache(p)
    \/ \E p \in DSCallers : DeleteInstanceTenant(p)
    \/ \E p \in DSCallers, dbOK \in BOOLEAN : DeleteInstanceAttachments(p, dbOK)
    \/ GetInstanceLastStats

SpecInst == InitDS /\ [][NextInst]_vars

\* block devices and storage attachments
NextStore ==
    \/ \E v \in VolumeIDs, dbOK \in BOOLEAN : AddBlockDevice(v, Available, dbOK)
    \/ \E v \in VolumeIDs, dbOK \in BOOLEAN : DeleteBlockDevice(v, dbOK)
    \/ \E i \in InstanceIDs, v \in VolumeIDs, dbOK \in BOOLEAN :
          CreateStorageAttachment(i, v, dbOK)
    \/ \E a \in 1 .. MaxAttachments, dbOK \in BOOLEAN : DeleteStorageAttachment(a, dbOK)
    \/ \E i \in InstanceIDs, l \in VolumeLists, dbOK \in BOOLEAN :
          updateStorageAttachments(i, l, dbOK)

SpecStore == InitDS /\ [][NextStore]_vars

\* one instance, the statistics of its nodes, and one volume; an instance
\* ID is a fresh UUID, so no ID is added a second time, and an instance is
\* deleted by its ID once AddInstance has returned it
StatInstances == {"i1"}
StatVolumeLists == {<<>>, <<"v1">>}

NextStats ==
    \/ \E p \in Adders, id \in StatInstances, n \in NodeIDs \cup {NoNode},
          dbOK \in BOOLEAN :
          /\ id \notin DOMAIN instances \cup deletedIDs
          /\ Deleting(id) = {}
          /\ AddInstance(p, id, "w1", n, dbOK)
    \/ \E p \in DSCallers : AddInstanceTenant(p)
    \/ \E p \in Deleters, id \in StatInstances, dbOK \in BOOLEAN :
          Adding(id) = {} /\ DeleteInstance(p, id, dbOK)
    \/ \E p \in DSCallers : DeleteInstanceCache(p)
    \/ \E p \in DSCallers : DeleteInstanceTenant(p)
    \/ \E p \in DSCallers : DeleteInstanceNode(p)
    \/ \E p \in DSCallers, dbOK \in BOOLEAN : DeleteInstanceAttachments(p, dbOK)
    \/ \E n \in NodeIDs, load \in BOOLEAN, id \in StatInstances, u \in UsageInputs,
          l \in StatVolumeLists, dbOK \in BOOLEAN :
          HandleStats(n, load, id, u, l, dbOK)
    \/ \E id \in StatInstances, dbOK \in BOOLEAN : InstanceStopped(id, dbOK)
    \/ \E dbOK \in BOOLEAN : AddBlockDevice("v1", Available, dbOK)

SpecStats == InitDS /\ [][NextStats]_vars

\* the instance operations as sequences of lock calls
NextLocks ==
    \/ \E g \in LockCallers, prog \in LockOperations : StartOperation(g, prog)
    \/ \E g \in LockCallers : TakeLock(g)
    \/ \E g \in LockCallers : ReleaseLock(g)

SpecLocks == InitDS /\ [][NextLocks]_vars

InitNet == IPStart({24}) /\ CNCIStart /\ PoolStart /\ DSStart

NextNet ==
    \/ \E p \in IPCallers : AllocateTenantIP(p)
    \/ \E p \in IPCallers, claimed \in BOOLEAN : ClaimTenantIP(p, claimed)
    \/ \E p \in IPCallers : AllocateWaitForActive(p)
    \/ \E p \in IPCallers : AllocateTenantIPReturns(p)
    \/ \E ip \in held : AddInstanceIP(ip)
    \/ \E p \in IPCallers : \E ip \in held : ReleaseTenantIPCNCI(p, ip)
    \/ \E q \in CNCICallers \cup TimerIds : ReceiveEvent(q)
    \/ \E q \in CNCICallers \cup TimerIds : EventTimeout(q)
    \/ \E q \in CNCICallers \cup TimerIds : DeferClose(q)
    \/ \E t \in TimerIds : DeferClear(t)
    \/ \E p \in CNCICallers : WfaLookup(p)
    \/ \E p \in CNCICallers : WfaActive(p)
    \/ \E p \in CNCICallers : WfaReadCh(p)
    \/ \E p \in CNCICallers : WfaReceive(p)
    \/ \E p \in CNCICallers : WfaClosed(p)
    \/ \E p \in CNCICallers : WfaActive2(p)
    \/ \E t \in TimerIds : TimerFire(t)
    \/ \E t \in TimerIds : TimerCallback(t)
    \/ \E t \in TimerIds, deleted \in BOOLEAN : TimerRemoveSubnet(t, deleted)
    \/ \E id \in DOMAIN recs : LaunchedCNCIAdded(id)
    \/ \E id \in DOMAIN recs : StoppedCNCIRemoved(id)
    \/ SendOnClosed

SpecNet == InitNet /\ [][NextNet]_vars

(***************************************************************************)
(* Properties of the tenant IP allocator.                                  *)
(***************************************************************************)
\* C1: AllocateTenantIP never returns an address that is still held from an
\* earlier call and has not been released; the addresses reserved by calls
\* still in flight differ from every held address and from each other.
C1_OutstandingDistinct ==
    /\ lastRet # None => ~lastRet.wasHeld
    /\ \A ip \in held : Reserved(network, ip)
    /\ \A p \in IPCallers : ipPc[p] = "claim" => ipLocal[p] \notin held
    /\ \A p, q \in IPCallers :
          (p # q /\ ipPc[p] = "claim" /\ ipPc[q] = "claim")
             => ipLocal[p] # ipLocal[q]

\* C1 witness: three addresses are held, the last one returned is among
\* them, and another allocation is in flight
C1_Witness ==
    /\ Cardinality(held) >= 3
    /\ lastRet # None
    /\ lastRet.ip \in held
    /\ \E p \in IPCallers : ipPc[p] = "claim"

\* C6: AllocateTenantIP returning ip, directly followed by
\* ReleaseTenantIP(ip), completes and leaves the tenant's network map and
\* subnets list as they were before the allocation.
C6_RoundTrip ==
    (roundTrip # None /\ roundTrip.stage = "released")
        => /\ ~panicked
           /\ network = roundTrip.preNet
           /\ subnets = roundTrip.preSubs

\* C7: AllocateTenantIP reserves in the lowest-numbered existing subnet that
\* has fewer than maxHosts addresses, and creates a subnet only when no
\* existing subnet has space.
C7_LowestSubnetWithSpace ==
    (lastAlloc # None /\ lastAlloc.kind = "ok")
        => LET withSpace == {k \in Range(lastAlloc.preSubs) :
                               NetLen(lastAlloc.preNet, k) < getMaxHost(lastAlloc.bits)}
           IN  IF withSpace # {}
               THEN lastAlloc.subnetInt = SetMin(withSpace)
               ELSE lastAlloc.subnetInt \notin DOMAIN lastAlloc.preNet

\* the host bytes reserved in subnet k before the last allocation
PreHosts(k) ==
    IF k \in DOMAIN lastAlloc.preNet THEN lastAlloc.preNet[k] ELSE {}

\* the last allocation took the smallest host byte >= 2 that was free
SmallestFreeHost ==
    /\ lastAlloc.rest >= 2
    /\ lastAlloc.rest \notin PreHosts(lastAlloc.subnetInt)
    /\ \A h \in 2 .. lastAlloc.rest - 1 : h \in PreHosts(lastAlloc.subnetInt)

\* the last allocation is the first one in its subnet after a release of the
\* subnet's lowest reserved host byte that left the subnet populated
AfterLowestRelease ==
    /\ lastAlloc.pend # None
    /\ lastAlloc.pend.subnetInt = lastAlloc.subnetInt

\* C8 as stated: the host byte returned is the smallest free one >= 2, and
\* after a release of the lowest reserved host byte of a subnet that stays
\* populated the next allocation in the subnet returns that host byte.
C8_AsStated ==
    (lastAlloc # None /\ lastAlloc.kind = "ok")
        => /\ SmallestFreeHost
           /\ AfterLowestRelease => lastAlloc.rest = lastAlloc.pend.rest

\* C8 amended: the host byte returned is the smallest free one >= 2 (never
\* 0 or 1); after a release of the lowest reserved host byte h of a subnet
\* that stays populated, the next allocation in the subnet returns host
\* byte 2, which is h only when h = 2.
C8_SmallestFreeHost ==
    (lastAlloc # None /\ lastAlloc.kind = "ok")
        => /\ SmallestFreeHost
           /\ AfterLowestRelease =>
                 /\ lastAlloc.rest = FirstHost
                 /\ lastAlloc.rest <= lastAlloc.pend.rest

\* C8 witness: an allocation that follows such a release in a subnet that
\* still holds other addresses, and returns the released host byte
C8_Witness ==
    /\ lastAlloc # None
    /\ lastAlloc.kind = "ok"
    /\ AfterLowestRelease
    /\ PreHosts(lastAlloc.subnetInt) # {}
    /\ lastAlloc.rest = lastAlloc.pend.rest

\* 2^(32 - subnetBits) - 3
MaxHostsOf(bits) == Pow2(32 - bits) - 3

C27_FailedAllocationReleases ==
    [][\A p \in IPCallers :
          (/\ AllocateTenantIPReturn(p)
           /\ roundTrip # None /\ roundTrip.by = p /\ roundTrip.stage = "reserved"
           /\ roundTrip' = None)
              => /\ network' = roundTrip.preNet
                 /\ subnets' = roundTrip.preSubs]_vars

\* C37: the tenant's subnets list holds exactly the keys of its network
\* map, each once.
C37_SubnetsAreNetworkKeys ==
    /\ Range(subnets) = DOMAIN network
    /\ Len(subnets) = Cardinality(DOMAIN network)

C13_FirstUnmapped ==
    (rt # None /\ rt.op = "map")
        => /\ rt.addr \notin DOMAIN rt.preMapped
           /\ rt.addr = rt.first

\* C14: a MapExternalIP that returns a, followed by an UnMapExternalIP(a)
\* that returns nil, restores the pool's free count and the mappedIPs cache,
\* and the next MapExternalIP on the pool returns a again.
C14_MapUnMapRoundTrip ==
    rt # None
        => /\ rt.op = "unmap"
                => /\ rt.pool \in DOMAIN pools
                   /\ pools[rt.pool].Free = rt.preFree
                   /\ mappedIPs = rt.preMapped
           /\ (rt.op = "map" /\ rt.expect # None) => rt.addr = rt.expect

\* C14 witness: the address was mapped, unmapped and the pool mapped again
C14_Witness == rt # None /\ rt.op = "map" /\ rt.expect # None

\* pool p holds address string a: in one of its subnets or as one of its
\* individual addresses
PoolHolds(p, a) ==
    \/ \E i \in DOMAIN p.Subnets : Contains(ParseCIDR(p.Subnets[i].CIDR).ipNet, a.ip)
    \/ \E i \in DOMAIN p.IPs : p.IPs[i].Address = a

\* C15: DeletePool, DeleteSubnet and DeleteExternalIP never remove what a
\* current MappedIP refers to, so every MappedIP refers to an existing pool
\* that still contains its external address.
C15_MappedRefersToPool ==
    \A a \in DOMAIN mappedIPs :
        /\ mappedIPs[a].PoolID \in DOMAIN pools
        /\ PoolHolds(pools[mappedIPs[a].PoolID], a)

\* C16: an AddPool that returned an error left pools, externalSubnets and
\* externalIPs as they were before the call, also when only a later subnet
\* of the pool was rejected; an AddPool that returned nil entered every
\* subnet and every individual address of the pool.
C16_AddPoolAllOrNothing ==
    (rt # None /\ rt.op = "addPool" /\ rt.returned)
        => IF rt.err
           THEN /\ pools = rt.prePools
                /\ externalSubnets = rt.preSubnets
                /\ externalIPs = rt.preIPs
           ELSE /\ \A i \in DOMAIN rt.pool.Subnets :
                      rt.pool.Subnets[i].CIDR \in externalSubnets
                /\ \A i \in DOMAIN rt.pool.IPs :
                      String(ParseIP(rt.pool.IPs[i].Address)) \in externalIPs

(***************************************************************************)
(* Properties of the CNCI manager.                                         *)
(***************************************************************************)

\* C2: a WaitForActive call, whose result decides whether AllocateTenantIP
\* returns its address, succeeds only for a CNCI record whose added event
\* has been processed; the launching call leaves its wait with success only
\* by receiving that event.
C2_ActiveBeforeReturn ==
    \A p \in CNCICallers :
        (proc[p].pc \in {"w_close", "w_clear", "wfa_done"} /\ proc[p].ret = "ok")
            => proc[p].rec \in everAdded

\* C2 witness: a launching call has received added and is about to return
\* success, and a second call on the existing record returns success too
C2_Witness ==
    \E p, q \in CNCICallers :
        /\ proc[p].pc = "w_close" /\ proc[p].ret = "ok"
        /\ proc[q].pc = "wfa_done" /\ proc[q].ret = "ok"
        /\ proc[q].rec = proc[p].rec

\* C3: no two CNCI records in cncis carry the same subnet key.
C3_OneRecordPerSubnet ==
    \A r1, r2 \in cncis : recs[r1].subnet = recs[r2].subnet => r1 = r2

\* C9: a caller that was waiting on a CNCI when its StartFailure came does
\* not return success; a CNCI that failed to start is in neither cncis nor
\* subnets; no later WaitForActive resolves the failed record.
C9_StartFailureClears ==
    /\ \A p \in failedWaiters : proc[p].ret # "ok"
    /\ \A r \in DOMAIN recs :
          recs[r].state = ExitFailed
              => /\ r \notin cncis
                 /\ subnetsMap[recs[r].subnet] # r
    /\ ~resolvedFailed

\* C9 witness: the launching call has taken the startFailure event and is
\* returning the error, the failed record is gone, and another call has
\* launched a new CNCI for the same subnet
C9_Witness ==
    \E p \in failedWaiters, r \in cncis :
        /\ proc[p].pc \in {"w_close", "w_clear"}
        /\ proc[p].ret = "err"
        /\ recs[proc[p].rec].state = ExitFailed
        /\ r # proc[p].rec
        /\ recs[r].subnet = recs[proc[p].rec].subnet
        /\ subnetsMap[recs[r].subnet] = r

\* C10: the callback of a remove-timer that WaitForActive has cancelled
\* does not run RemoveSubnet, unless ScheduleRemoveSubnet has been called
\* again for the subnet since.
C10_CancelledNeverRemoves == cancelled \cap ranRemove = {}

\* C21: the manager delivers a removed event to a waiter only for a CNCI
\* whose added event has been processed before, whatever the order of the
\* agent notifications.
C21_AddedBeforeRemoved ==
    [][(handler # None /\ handler.ev = removed /\ handler' = None)
          => handler.rec \in everAdded]_vars

\* C22: CNCIAdded for a CNCI that is already active changes nothing in the
\* manager (cncis, subnets, instance state, timers, event channels) and
\* returns without blocking in a send.
C22_SecondAddedIdempotent ==
    [][\A id \in DOMAIN recs :
          (recs[id].state = Running /\ CNCIAdded(id))
              => UNCHANGED <<cnciLock, cncis, subnetsMap, recs, chanClosed,
                             handler, proc>>]_vars

\* C23: ScheduleRemoveSubnet(k) called while a remove-timer of subnet k is
\* pending makes no second timer: at no time are two remove-timers of one
\* subnet pending.
C23_OneTimerPerSubnet ==
    \A t1, t2 \in TimerIds :
        (proc[t1].pc = "armed" /\ proc[t2].pc = "armed" /\ proc[t1].k = proc[t2].k)
            => t1 = t2

\* C24: when Shutdown returns, no remove-timer the manager has made is
\* pending, and none has a callback that has yet to start RemoveSubnet.
C24_ShutdownStopsTimers ==
    [][(\E p \in CNCICallers : Shutdown(p))
          => \A t \in TimerIds : proc'[t].pc \notin {"armed", "cb_lock", "rs_lock"}]_vars

\* C28: every call of WaitForActive and RemoveSubnet returns in the end:
\* a caller inside the manager is eventually outside again.
C28_CallsReturn ==
    \A p \in CNCICallers : (proc[p].pc # "idle") ~> (proc[p].pc = "idle")

\* C29: no event handler is in its send on an event channel that the
\* waiter has already closed: whenever a handler holds the manager lock
\* to send, its channel is still open.
C29_NoSendOnClosedChannel ==
    handler # None => ~chanClosed[handler.ch]

\* C30: the added event of a launching CNCI is received only by the waiter
\* that owns the channel: no other caller of WaitForActive takes it while
\* the caller that launched the CNCI is still waiting for it.
C30_EventOnlyToOwner ==
    [][\A p \in CNCICallers :
          (handler # None /\ handler.ev = added /\ WfaReceive(p))
             => ~\E q \in CNCICallers \ {p} :
                    proc[q].pc = "w_wait" /\ proc[q].ch = proc[p].ch]_vars

\* C33: a launch that failed inside WaitForActive leaves no record behind:
\* every record in the subnets map has the instance of its launch.
C33_FailedLaunchLeavesNoRecord ==
    \A k \in CNCISubnets :
        subnetsMap[k] # 0 => recs[subnetsMap[k]].instance

\* C34: every record in the subnets map is either still being launched or
\* is the record of a CNCI that is in cncis.
C34_SubnetRecordHasCNCI ==
    \A k \in CNCISubnets :
        LET r == subnetsMap[k]
        IN  (r # 0 /\ recs[r].instance /\ recs[r].state # Pending) => r \in cncis

(***************************************************************************)
(* Properties of the external IP pools.                                    *)
(***************************************************************************)

\* the subnets and the individual addresses admitted to the cached pools,
\* each with the pool and the position that holds it
AdmittedSubnets ==
    {e \in (DOMAIN pools) \X (1 .. MaxIDs) : e[2] \in DOMAIN pools[e[1]].Subnets}

AdmittedIPs ==
    {e \in (DOMAIN pools) \X (1 .. MaxIDs) : e[2] \in DOMAIN pools[e[1]].IPs}

NetOf(e) == ParseCIDR(pools[e[1]].Subnets[e[2]].CIDR).ipNet

AddrOf(e) == ParseIP(pools[e[1]].IPs[e[2]].Address)

\* C4: with no pool operation in progress, every cached pool has
\* Free = TotalIPs - (number of cached mappings that name the pool).
C4_FreeMatchesMappings ==
    addPoolFailed = {}
        => \A id \in DOMAIN pools :
              pools[id].Free = pools[id].TotalIPs - MappedOf(id)

\* C38: every cached pool has 0 <= Free <= TotalIPs.
C38_FreeWithinTotal ==
    \A id \in DOMAIN pools :
        0 <= pools[id].Free /\ pools[id].Free <= pools[id].TotalIPs

\* C5: no two admitted pool subnets overlap, no individual address is
\* admitted more than once across all pools, and no admitted individual
\* address lies inside an admitted pool subnet.
C5_NoOverlap ==
    /\ \A e, f \in AdmittedSubnets :
          e # f => /\ ~Contains(NetOf(e), NetOf(f).IP)
                   /\ ~Contains(NetOf(f), NetOf(e).IP)
    /\ \A e, f \in AdmittedIPs : e # f => AddrOf(e) # AddrOf(f)
    /\ \A e \in AdmittedIPs, f \in AdmittedSubnets : ~Contains(NetOf(f), AddrOf(e))

\* C25: AddExternalSubnet rejects every /32 subnet and every subnet with
\* fewer than 3 usable host addresses, and then leaves the pool and the
\* externalSubnets index as they were.
C25_SmallSubnetRejected ==
    [][\A id \in IDsUsed, c \in CIDRInputs, dbOK \in BOOLEAN :
          (AddExternalSubnet(id, c, dbOK) /\ (c.ones = 32 \/ SubnetIPs(c.ones) < 3))
              => UNCHANGED <<pools, externalSubnets>>]_vars

\* C26: a mutating operation calls the persistent store before it changes
\* the caches, so a failed persistent call leaves the caches as they were;
\* stated here for DeletePool, MapExternalIP and UnMapExternalIP.
C26_FailedPersistKeepsCache ==
    [][(/\ \/ \E id \in IDsUsed : DeletePool(id)
           \/ \E id \in IDsUsed, found, addOK, updOK \in BOOLEAN :
                 MapExternalIP(id, found, addOK, updOK)
           \/ \E a \in DOMAIN mappedIPs \cup AddrInputs, delOK, updOK \in BOOLEAN :
                 UnMapExternalIP(a, delOK, updOK)
        /\ dbFailures' # dbFailures)
          => UNCHANGED <<pools, externalSubnets, externalIPs, mappedIPs>>]_vars

(***************************************************************************)
(* Properties of the instance, workload and storage caches.                *)
(***************************************************************************)
\* C17: a DeleteWorkload(W) called while some cached instance references W
\* fails with ErrWorkloadInUse and leaves the workload list unchanged; one
\* called when no cached instance references W (the last one has been
\* deleted), with W in the tenant's list and the store working, succeeds
\* and removes W.
C17_InUseRefused ==
    lastDW # None
        => /\ lastDW.inUse => (lastDW.ret = "ErrWorkloadInUse" /\ lastDW.same)
           /\ (~lastDW.inUse /\ lastDW.listed /\ lastDW.dbOK)
                 => (lastDW.ret = "nil" /\ lastDW.removed)

\* C17 witness: DeleteWorkload(W) was refused with ErrWorkloadInUse, and the
\* next DeleteWorkload(W) succeeded
C17_Witness == lastDW # None /\ lastDW.ret = "nil" /\ lastDW.refusedBefore

\* the attachments cached for instance i and volume v
AttachmentsOf(i, v) ==
    {a \in DOMAIN attachments :
        attachments[a].InstanceID = i /\ attachments[a].BlockID = v}

\* C18: instanceVolumes has an entry for (i, v) exactly when the attachments
\* cache holds an attachment with instanceID = i and blockID = v, and there
\* is at most one attachment per pair.
C18_LinksMatchAttachments ==
    \A i \in InstanceIDs, v \in VolumeIDs :
        /\ <<i, v>> \in DOMAIN instanceVolumes <=> AttachmentsOf(i, v) # {}
        /\ Cardinality(AttachmentsOf(i, v)) <= 1

\* C19: an updateStorageAttachments call that repeats the call before it
\* (same instance, same volume list) changes no cache.
C19_UpdateIdempotent == (usa # None /\ usa.again) => ~usa.changed

\* C19 witness: the call was repeated after a call that changed the caches
C19_Witness == usa # None /\ usa.again /\ usa.prevChanged

\* the order in which locks may be taken when several are held
LockOrder ==
    <<"tenantsLock", "instancesLock", "nodesLock", "bdLock", "attachLock",
      "poolsLock", "instanceLastStatLock">>

LockRank(l) == CHOOSE n \in DOMAIN LockOrder : LockOrder[n] = l

\* C20: no operation takes a lock that comes earlier in the order
\* tenantsLock, instancesLock, nodesLock, bdLock, attachLock, poolsLock,
\* stat locks while it holds a later one.
C20_LockOrderKept ==
    \A n \in lockNest : LockRank(n[1]) < LockRank(n[2])

(***************************************************************************)
(* Properties of the instance statistics and of the domain locks.          *)
(***************************************************************************)
\* C31: when a DeleteInstance that no AddInstance, stat or stop of the
\* same instance has overtaken completes, the instance is in no cache: not
\* in instances, in the tenant's instances, in instanceLastStat, in any
\* node's instances, and it has no storage attachment.
C31_DeletedEverywhere ==
    [][\A p \in Deleters, dbOK \in BOOLEAN :
          (DeleteInstanceAttachments(p, dbOK) /\ p \notin raced)
             => LET id == dsPc[p].id
                IN  /\ id \notin DOMAIN instances'
                    /\ id \notin tenantInstances'
                    /\ id \notin instanceLastStat'
                    /\ \A n \in DOMAIN nodes' : id \notin nodes'[n]
                    /\ \A a \in DOMAIN attachments' :
                          attachments'[a].InstanceID # id]_vars

\* C32: AddInstance that succeeds enters the instance in instances, in
\* instanceLastStat and, when it has a NodeID, in that node's instances;
\* AddInstance whose persistent call fails changes no cache.
C32_AddedEverywhere ==
    [][\A p \in Adders, id \in StatInstances, n \in NodeIDs \cup {NoNode},
         dbOK \in BOOLEAN :
          AddInstance(p, id, "w1", n, dbOK)
             => IF dbOK
                THEN /\ id \in DOMAIN instances'
                     /\ id \in instanceLastStat'
                     /\ n # NoNode => (n \in DOMAIN nodes' /\ id \in nodes'[n])
                ELSE UNCHANGED <<instances, instanceLastStat, tenantInstances,
                                 nodes, instanceNode>>]_vars

\* C39: every component of the usage delta that addInstanceStats passes
\* to updateTenantUsage is at least 0.
C39_DeltaNotNegative ==
    lastStat # None
        => lastStat.delta[1] >= 0 /\ lastStat.delta[2] >= 0 /\ lastStat.delta[3] >= 0

\* C40: a stat entry handled after DeleteInstance of its instance has
\* completed creates no instanceLastStat entry and no storage attachment
\* and switches no block device to in-use.
C40_StatsAfterDeleteCreateNothing ==
    (lastStat # None /\ lastStat.after)
        => ~lastStat.entered /\ lastStat.made = {} /\ lastStat.inUse = {}

\* a goroutine whose next lock call cannot be granted
Blocked(g) ==
    /\ lockProg[g] # <<>>
    /\ Head(lockProg[g])[1] \in {"Lock", "RLock"}
    /\ ~CanTake(Head(lockProg[g])[1], Head(lockProg[g])[2])

\* C36: the operations never deadlock on the domain locks: it is never the
\* case that every goroutine is inside an operation and waits for a lock
\* that another one holds.
C36_NoDeadlock == ~\A g \in LockCallers : Blocked(g)

(***************************************************************************)
(* Properties of the allocator with the CNCI manager attached.             *)
(***************************************************************************)
\* the manager holds, for subnet k, a record that is active or launching
HasCNCI(k) ==
    /\ k \in DOMAIN subnetsMap
    /\ subnetsMap[k] # 0
    /\ recs[subnetsMap[k]].state \in {Pending, Running}

\* C11: the address of every instance in the datastore is reserved in the
\* tenant's network map, and the tenant's CNCI manager holds a record,
\* active or launching, for the subnet of the address; so no CNCI is
\* removed while an instance holds an address in its subnet
C11_InstanceAddressHasCNCI ==
    \A ip \in instanceIPs :
        /\ Reserved(network, ip)
        /\ HasCNCI(SubnetOf(ip))

====
